---- MODULE Spec2Model ----
(***************************************************************************)
(* Model of start_services.py: the stack launcher (main), the command     *)
(* runner (run_command), the readiness waits (wait_for_neo4j,             *)
(* wait_for_supabase) and the host port remapping of start_local_ai.      *)
(***************************************************************************)
EXTENDS Integers, Sequences, FiniteSets, TLC

(***************************************************************************)
(* Program constants                                                       *)
(***************************************************************************)
\* http_get(url, timeout=3)
HttpTimeout == 3
\* wait_for_supabase(timeout=180), time.sleep(3)
SupabaseTimeout == 180
SupabasePoll == 3
\* wait_for_neo4j(timeout=120), time.sleep(2)
Neo4jTimeout == 120
Neo4jPoll == 2
\* find_next_free_port: "while p in used or p < 1024"
FirstUnprivileged == 1024
\* the largest port number there is: host ports are published as TCP ports
MaxPort == 65535
\* "if code and code < 600"
StatusLimit == 600

(***************************************************************************)
(* Bounds of the model                                                     *)
(***************************************************************************)
\* longest list of declared 127.0.0.1 pairs given to the resolver
MaxDeclared == 2
\* declared and listening ports lie within PortSpan of FirstUnprivileged
PortSpan == 2
\* longest list of declared pairs seen by a whole launch
MaxLaunchDeclared == 1
\* largest time an in-container probe round of wait_for_neo4j takes
MaxExecTime == 1
\* largest timeout and largest answer delay given to the waiter on its own
MaxWaitTimeout == 14
MaxDelay == 17

\* lines of the override file given to the port parser on its own
MaxOverrideLines == 2
\* pieces of docker-compose.yml and calls made in a row on it when
\* check_and_fix_docker_compose_for_searxng runs on its own
MaxTextLen == 2
MaxFixCalls == 3
\* calls of patch_supabase_compose made in a row on one compose file
MaxPatchCalls == 2
\* longest line of the file given to read_env on its own, in pieces
MaxLineLen == 4
\* longest run of a process and largest timeout given to run_command on its own
MaxDuration == 3
MaxLimit == 2

None == "None"

(***************************************************************************)
(* State                                                                   *)
(***************************************************************************)
VARIABLES
    pc,                 \* position of main()
    args,               \* argparse result
    exitCode,           \* <<status>> once the process has exited, <<>> before
    issued,             \* phase commands and waits, in the order main issued them
    cmdFailures,        \* commands whose process did not exit with status 0
    raisedBy,           \* cmd of the exception that ended main, or None
    output,             \* messages printed so far (tags)
    cwd,                \* process working directory
    rootEnv,            \* content class of .env in the repository root
    shadowEnv,          \* content class of supabase/docker/.env
    timeout,            \* timeout of the wait in progress
    elapsed,            \* time.time() - start, as the while condition last read it
    ready,              \* wait_for_supabase: ready
    answered,           \* targets whose last probe was answered with an HTTP status
    delay,              \* time after which each target answers (waiter on its own)
    waitResult,         \* <<return value>> of the last wait, <<>> before
    declared,           \* parsed['__anonymous__']
    listening0,         \* result of get_listening_ports()
    portTools,          \* <<tool, what it did>> for the tools get_listening_ports ran
    listening,          \* the same set object after the remap loop
    remap,              \* remap list
    temp_override_path, \* start_local_ai: temp_override_path
    overlayExists,      \* whether the temporary overlay file is on disk
    cmd,                \* compose command of the main stack
    runCall,            \* arguments of a call of run_command, and the process
    runReturn,          \* <<what that call handed back>>, <<>> before
    genCalls,           \* generator processes run by the last prepare_supabase_env
    env_vals,           \* <<dict returned by read_env>>, <<>> before
    compose,            \* supabase/docker/docker-compose.yml
    composeWrites,      \* times patch_supabase_compose has rewritten it
    patchCalls,         \* calls of patch_supabase_compose made
    overrideFile,       \* lines of docker-compose.override.private.yml
    overlayPorts,       \* port entries written to the temporary override
    composeText,        \* content of docker-compose.yml in the repository root
    composeText0,       \* that content before the first call on it
    fixRuns,            \* is_first_run of the calls made on it, in order
    overlayDoc,         \* services of the temporary override, each with its ports
    tried,              \* wait_for_neo4j: <<strategy, result>> of its last pass
    polled,             \* wait_for_supabase: targets probed in its last pass
    localai             \* the compose project, with the launches run against it

vars == <<portTools, pc, args, exitCode, issued, cmdFailures, raisedBy, output, cwd,
          rootEnv, shadowEnv, timeout, elapsed, ready, answered,
          delay, waitResult, declared, listening0, listening, remap,
          temp_override_path, overlayExists, cmd, runCall, runReturn,
          genCalls, env_vals, compose, composeWrites, patchCalls,
          overrideFile, overlayPorts, composeText, composeText0, fixRuns,
          overlayDoc, tried, polled, localai>>

launchVars == <<pc, args, exitCode, issued, cmdFailures, raisedBy, output>>
envVars == <<cwd, rootEnv, shadowEnv>>
waitVars == <<timeout, elapsed, ready, answered, delay, waitResult>>
portVars == <<declared, listening0, listening, remap, portTools>>
overlayVars == <<temp_override_path, overlayExists, cmd>>
\* state of the functions exercised on their own
composeVars == <<compose, composeWrites, patchCalls>>
parseVars == <<overrideFile, overlayPorts>>
probeVars == <<tried, polled>>
auxVars == <<composeText, composeText0, fixRuns, overlayDoc, tried, polled, localai>>
unitVars == <<runCall, runReturn, genCalls, env_vals, compose, composeWrites,
              patchCalls, overrideFile, overlayPorts, composeText, composeText0,
              fixRuns, overlayDoc, tried, polled, localai>>

(***************************************************************************)
(* run_command                                                             *)
(***************************************************************************)
\* "git clone ...", timeout=300
CloneTimeout == 300

\* What the external process does: exits 0, exits non-zero, is not found,
\* or runs longer than the timeout given (only when a timeout is given).
ProcOutcomes == {"ok", "nonzero", "notfound"}
TimedProcOutcomes == ProcOutcomes \cup {"slow"}

\* timeout=None
NoTimeout == <<>>

\* The external process in full: whether the executable is found, whether the
\* process ever exits by itself, after how long, with which status and output.
Process(outcome, limit) ==
    [found |-> outcome # "notfound",
     exits |-> outcome # "hangs",
     duration |-> IF outcome = "slow" /\ limit # NoTimeout THEN limit[1] + 1 ELSE 0,
     returncode |-> IF outcome = "nonzero" THEN 1 ELSE 0,
     stdout |-> "", stderr |-> ""]

\* str(e) of the exceptions subprocess.run raises
NotFoundText == "[Errno 2] No such file or directory"
StatusText(c) == IF c = 1 THEN "returned non-zero exit status 1"
                 ELSE "returned non-zero exit status 2"

\* subprocess.run(cmd, check=check, capture_output=True, timeout=limit): the
\* exception it raises, or None when it returns a CompletedProcess; it does
\* not come back at all when the process never exits and no timeout is given.
subprocess_run(proc, check, limit) ==
    IF ~proc.found THEN "FileNotFoundError"
    ELSE IF limit # NoTimeout /\ (~proc.exits \/ proc.duration > limit[1])
        THEN "TimeoutExpired"
    ELSE IF ~proc.exits THEN "blocked"
    ELSE IF check /\ proc.returncode # 0 THEN "CalledProcessError"
    ELSE None

\* CommandExecutionError(message, cmd, exit_code, stdout, stderr)
CommandExecutionError(exit_code, stdout, stderr) ==
    [exit_code |-> exit_code, stdout |-> stdout, stderr |-> stderr]

\* What run_command hands to its caller: blocked (it never returns), raised
\* (class of the exception, or None), result (<<CompletedProcess>>, or <<>>
\* for None) and error (<<the CommandExecutionError>>, or <<>>).
Returned(proc) ==
    [blocked |-> FALSE, raised |-> None,
     result |-> <<[returncode |-> proc.returncode, stdout |-> proc.stdout,
                   stderr |-> proc.stderr]>>,
     error |-> <<>>]
ReturnedNone == [blocked |-> FALSE, raised |-> None, result |-> <<>>, error |-> <<>>]
Raised(class, e) == [blocked |-> FALSE, raised |-> class, result |-> <<>>, error |-> e]
NeverReturns == [blocked |-> TRUE, raised |-> None, result |-> <<>>, error |-> <<>>]

\* The text handed to CommandExecutionError as stderr by each except clause.
ErrorText(exc, proc) ==
    IF exc = "TimeoutExpired" THEN "Timeout"
    ELSE IF exc = "FileNotFoundError" THEN NotFoundText
    ELSE StatusText(proc.returncode)

\* run_command with the exception of subprocess.run passed on as it is.
run_command_unwrapped(proc, ignore_errors, limit) ==
    LET exc == subprocess_run(proc, ~ignore_errors, limit) IN
    IF exc = "blocked" THEN NeverReturns
    ELSE IF exc = None THEN Returned(proc)
    ELSE IF ignore_errors THEN ReturnedNone
    ELSE Raised(IF exc = "CalledProcessError" THEN exc ELSE "CommandExecutionError",
                <<CommandExecutionError(-1, "", ErrorText(exc, proc))>>)

\* run_command(cmd, ignore_errors=..., timeout=limit): subprocess.run is
\* called with check=not ignore_errors, so a non-zero exit reaches the
\* "except Exception" clause as CalledProcessError; every except clause
\* raises CommandExecutionError(.., -1, "", <text>) unless ignore_errors, and
\* returns None otherwise.
run_command(proc, ignore_errors, limit) ==
    LET exc == subprocess_run(proc, ~ignore_errors, limit) IN
    IF exc = "blocked" THEN NeverReturns
    ELSE IF exc = None THEN Returned(proc)
    ELSE IF ignore_errors THEN ReturnedNone
    ELSE Raised("CommandExecutionError",
                <<CommandExecutionError(-1, "", ErrorText(exc, proc))>>)

\* "except <handler>:" catches an exception of class exc.  CommandExecutionError
\* derives from Exception, not from subprocess.CalledProcessError.
Catches(handler, exc) ==
    /\ exc # None
    /\ \/ handler = exc
       \/ handler = "Exception"

(***************************************************************************)
(* Configuration files and read_env                                        *)
(***************************************************************************)
\* A file is NoFile or <<its lines>>; a line is the sequence of the pieces of
\* text it is made of: "=", "#", a blank " ", or a piece without any of them.
NoFile == <<>>
File(lines) == <<lines>>
Exists(f) == f # NoFile

Whitespace == {" "}

RECURSIVE lstrip(_)
lstrip(l) == IF l # <<>> /\ Head(l) \in Whitespace THEN lstrip(Tail(l)) ELSE l

RECURSIVE rstrip(_)
rstrip(l) ==
    IF l # <<>> /\ l[Len(l)] \in Whitespace THEN rstrip(SubSeq(l, 1, Len(l) - 1))
    ELSE l

\* line.strip()
strip(l) == rstrip(lstrip(l))

\* the line taken as it is
unstripped(l) == l

HasEq(l) == \E i \in 1..Len(l) : l[i] = "="
FirstEq(l) == CHOOSE i \in 1..Len(l) : l[i] = "=" /\ \A j \in 1..(i - 1) : l[j] # "="

\* "if not line or line.startswith('#') or '=' not in line: continue"
Skipped(l) == l = <<>> \/ l[1] = "#" \/ ~HasEq(l)

\* "k, v = line.split('=', 1)"
SplitKey(l) == SubSeq(l, 1, FirstEq(l) - 1)
SplitValue(l) == SubSeq(l, FirstEq(l) + 1, Len(l))

\* vals[k] = v
Put(vals, k, v) == [x \in DOMAIN vals \cup {k} |-> IF x = k THEN v ELSE vals[x]]

\* read_env without the strip of the line
RECURSIVE read_lines_verbatim(_, _, _)
read_lines_verbatim(lines, i, vals) ==
    IF i > Len(lines) THEN vals
    ELSE LET line == unstripped(lines[i]) IN
         read_lines_verbatim(lines, i + 1,
             IF Skipped(line) THEN vals ELSE Put(vals, SplitKey(line), SplitValue(line)))

\* "for line in f:" of read_env, from line i on
RECURSIVE read_lines(_, _, _)
read_lines(lines, i, vals) ==
    IF i > Len(lines) THEN vals
    ELSE LET line == strip(lines[i]) IN
         read_lines(lines, i + 1,
             IF Skipped(line) THEN vals ELSE Put(vals, SplitKey(line), SplitValue(line)))

\* read_env(path): the dict of the file, empty when there is no file
read_env(f) == IF Exists(f) THEN read_lines(f[1], 1, <<>>) ELSE <<>>

\* env_vals.get(k): None and "" are both false
Get(vals, k) == IF <<k>> \in DOMAIN vals THEN vals[<<k>>] ELSE <<>>

required == <<"POSTGRES_HOST", "POSTGRES_DB", "POSTGRES_PORT", "NEO4J_AUTH",
              "DOCKER_SOCKET_LOCATION">>

\* "missing = [k for k in required if not env_vals.get(k)]"
missing(f) == {required[i] : i \in {j \in 1..Len(required) : Get(read_env(f), required[j]) = <<>>}}

\* Files met in a launch: every required key set; POSTGRES_PORT left empty;
\* what an earlier launch left in supabase/docker.
CompleteEnv ==
    File(<< <<"POSTGRES_HOST", "=", "x">>, <<"POSTGRES_DB", "=", "x">>,
            <<"POSTGRES_PORT", "=", "x">>, <<"NEO4J_AUTH", "=", "x">>,
            <<"DOCKER_SOCKET_LOCATION", "=", "x">> >>)
IncompleteEnv ==
    File(<< <<"POSTGRES_HOST", "=", "x">>, <<"POSTGRES_DB", "=", "x">>,
            <<"POSTGRES_PORT", "=">>, <<"NEO4J_AUTH", "=", "x">>,
            <<"DOCKER_SOCKET_LOCATION", "=", "x">> >>)
StaleEnv == File(<< <<"#", " ", "old">> >>)

(***************************************************************************)
(* Initial state: the process has parsed its arguments                     *)
(***************************************************************************)
Targets == <<"auth", "rest">>
TargetNames == {Targets[i] : i \in 1..Len(Targets)}

EnvClasses == {NoFile, IncompleteEnv, CompleteEnv}

\* The command lines tried: every combination of --preflight and --skip-neo4j,
\* with the defaults of the other options or with all three of them given.
OtherArgs == {[start_nextjs |-> FALSE, profile |-> "cpu", environment |-> "private"],
              [start_nextjs |-> TRUE, profile |-> "none", environment |-> "public"]}

ArgsSet == {[preflight |-> p, skip_neo4j |-> s, start_nextjs |-> o.start_nextjs,
             profile |-> o.profile, environment |-> o.environment] :
            p \in BOOLEAN, s \in BOOLEAN, o \in OtherArgs}

NoWait == /\ timeout = 0
          /\ elapsed = 0
          /\ ready = {}
          /\ answered = {}
          /\ delay = [t \in TargetNames |-> 0]
          /\ waitResult = <<>>

(***************************************************************************)
(* The Supabase compose file and patch_supabase_compose                    *)
(***************************************************************************)
PoolerNames == {"supabase-pooler", "supavisor"}
ServiceNames == PoolerNames \cup {"db", "kong"}
\* What YAML gives for the body of a service: a mapping, or null for a
\* service name followed by nothing.
Bodies == {"mapping", None}

\* No file, a file yaml.safe_load() rejects, or a file with its services
\* (service name -> body).  writable: open(compose_file, "w") succeeds.
NoComposeFile == [exists |-> FALSE, parsable |-> FALSE, writable |-> FALSE,
                  services |-> <<>>]
UnparsableCompose == [exists |-> TRUE, parsable |-> FALSE, writable |-> TRUE,
                      services |-> <<>>]
ComposeFile(services, writable) ==
    [exists |-> TRUE, parsable |-> TRUE, writable |-> writable,
     services |-> services]

Without(services, names) == [n \in (DOMAIN services) \ names |-> services[n]]

\* services.pop(svc, None)
pop(services, svc) == IF svc \in DOMAIN services THEN services[svc] ELSE None

\* "if services.pop(svc, None) is not None: removed = True" for both names
removed(services) == \E svc \in PoolerNames : pop(services, svc) # None

\* Result: [file, wrote, warned].  The file changes only in
\* "if removed: ... yaml.safe_dump(data, f, sort_keys=False)", which writes the
\* data both names were popped from; every exception ends in the warning.
patch_supabase_compose(c) ==
    IF ~c.exists THEN [file |-> c, wrote |-> FALSE, warned |-> FALSE]
    ELSE IF ~c.parsable THEN [file |-> c, wrote |-> FALSE, warned |-> TRUE]
    ELSE IF ~removed(c.services) THEN [file |-> c, wrote |-> FALSE, warned |-> FALSE]
    ELSE IF ~c.writable THEN [file |-> c, wrote |-> FALSE, warned |-> TRUE]
    ELSE [file |-> ComposeFile(Without(c.services, PoolerNames), c.writable),
          wrote |-> TRUE, warned |-> FALSE]

\* The directory the launcher is started in.
RepoDir == <<"repo">>

NoPorts == /\ declared = <<>>
           /\ portTools = <<>>
           /\ listening0 = {}
           /\ listening = {}
           /\ remap = <<>>

NoOverlay == /\ temp_override_path = None
             /\ overlayExists = FALSE
             /\ cmd = <<>>

NoCall == /\ runCall = [proc |-> Process("ok", NoTimeout), ignore_errors |-> FALSE,
                     limit |-> NoTimeout]
          /\ runReturn = <<>>

\* The compose file of the Supabase checkout as the repository ships it.
UpstreamCompose ==
    ComposeFile([n \in ServiceNames |-> "mapping"], TRUE)

NoPatch == /\ compose = UpstreamCompose
           /\ composeWrites = 0
           /\ patchCalls = 0

NoParse == overrideFile = <<>> /\ overlayPorts = <<>>

\* docker-compose.yml of the repository writes cap_drop over two lines, so
\* the text "cap_drop: - ALL" is not in it.
PlainComposeText == <<"services:">>

NoProbes == tried = <<>> /\ polled = <<>>

\* Launches run side by side against the project, as a study of their own.
Attempts == {"first", "second"}

\* One launch: nothing else is using the project.
NoRace == localai = [containers |-> {},
                     skip_neo4j |-> [a \in Attempts |-> FALSE],
                     at |-> [a \in Attempts |-> "main"],
                     started |-> [a \in Attempts |-> {}],
                     ran |-> <<>>]

NoAux == /\ composeText = PlainComposeText
         /\ composeText0 = PlainComposeText
         /\ fixRuns = <<>>
         /\ overlayDoc = <<>>
         /\ NoProbes
         /\ NoRace

NoUnit == NoCall /\ genCalls = 0 /\ env_vals = <<>> /\ NoPatch /\ NoParse /\ NoAux

Init ==
    /\ pc = "clone_supabase_repo"
    /\ args \in ArgsSet
    /\ exitCode = <<>>
    /\ issued = <<>>
    /\ cmdFailures = {}
    /\ raisedBy = None
    /\ output = {}
    /\ cwd = RepoDir
    /\ rootEnv \in EnvClasses
    /\ shadowEnv \in {NoFile, StaleEnv}
    /\ NoWait
    /\ NoPorts
    /\ NoOverlay
    /\ NoUnit

\* An exception nobody catches leaves main(): the interpreter prints the
\* traceback and exits with status 1.
Abort(by) ==
    /\ pc' = "Failed"
    /\ exitCode' = <<1>>
    /\ raisedBy' = by

(***************************************************************************)
(* clone_supabase_repo                                                     *)
(***************************************************************************)
\* The first command run with ignore_errors=False that fails, or None.
\* exists: os.path.exists("supabase"); clone, init, set: the git processes;
\* docker_dir: os.path.exists("supabase/docker") after clone or update.
clone_supabase_repo(exists, clone, init, set, docker_dir) ==
    IF ~exists /\ run_command(Process(clone, <<CloneTimeout>>), FALSE, <<CloneTimeout>>).raised # None THEN "git clone"
    ELSE IF ~exists /\ run_command(Process(init, NoTimeout), FALSE, NoTimeout).raised # None
        THEN "git sparse-checkout init"
    ELSE IF ~exists /\ run_command(Process(set, NoTimeout), FALSE, NoTimeout).raised # None
        THEN "git sparse-checkout set"
    ELSE IF ~docker_dir THEN "no supabase/docker"
    ELSE None

\* A directory is the sequence of the names on its path.  os.chdir(name)
\* with a relative name: ".." or the name of a directory below.
chdir(dir, name) ==
    IF name = ".." THEN SubSeq(dir, 1, Len(dir) - 1) ELSE Append(dir, name)

after_body_chdir(raised, inside, restored) == IF raised THEN inside ELSE restored
\* "try: <body> finally: os.chdir(...)": the directory is restored whether
\* the body raised or not.  inside: the directory the body ran in.
finally_chdir(raised, inside, restored) == restored

\* os.getcwd() when clone_supabase_repo returns or raises.
working_directory_after(cwd0, exists, clone, init, set) ==
    LET inside == chdir(cwd0, "supabase") IN
    IF ~exists
       THEN IF run_command(Process(clone, <<CloneTimeout>>), FALSE,
                           <<CloneTimeout>>).raised # None
               THEN cwd0    \* raised before os.chdir("supabase")
               ELSE finally_chdir(
                        \/ run_command(Process(init, NoTimeout), FALSE, NoTimeout).raised # None
                        \/ run_command(Process(set, NoTimeout), FALSE, NoTimeout).raised # None,
                        inside, chdir(inside, ".."))
       \* original_dir = os.getcwd(); every command has ignore_errors=True and
       \* "except Exception" comes before the finally
       ELSE finally_chdir(FALSE, inside, cwd0)

CloneSupabaseRepo ==
    /\ pc = "clone_supabase_repo"
    /\ \E exists \in BOOLEAN, clone \in TimedProcOutcomes,
          init \in ProcOutcomes, set \in ProcOutcomes, docker_dir \in BOOLEAN :
          LET r == clone_supabase_repo(exists, clone, init, set, docker_dir) IN
          /\ IF r # None
                THEN /\ Abort(r)
                     /\ cmdFailures' = IF r = "no supabase/docker" THEN cmdFailures
                                       ELSE cmdFailures \cup {r}
                     /\ UNCHANGED composeVars
                ELSE /\ pc' = "prepare_supabase_env"
                     /\ UNCHANGED <<exitCode, raisedBy, cmdFailures>>
                     \* patch_supabase_compose() is the last statement of the try
                     /\ \E p \in {patch_supabase_compose(compose)} :
                           /\ compose' = p.file
                           /\ composeWrites' = composeWrites + (IF p.wrote THEN 1 ELSE 0)
                     /\ patchCalls' = patchCalls + 1
          /\ cwd' = working_directory_after(cwd, exists, clone, init, set)
    /\ UNCHANGED <<args, issued, output, rootEnv, shadowEnv>>
    /\ UNCHANGED <<waitVars, portVars, overlayVars>>
    /\ UNCHANGED <<runCall, runReturn, genCalls, env_vals, parseVars, auxVars>>

(***************************************************************************)
(* prepare_supabase_env                                                    *)
(***************************************************************************)
\* What a generator process does: "fail" (non-zero exit), "none" (the primary
\* exits with 0 and writes no .env), or the kind of file it writes.
PrimaryOutcomes == {"fail", "none", "incomplete", "complete"}
FallbackOutcomes == {"fail", "incomplete", "complete"}

\* The file a generator writes into the repository root.
Generated(outcome) == IF outcome = "complete" THEN CompleteEnv ELSE IncompleteEnv

\* generate_env_if_missing(): st = [root, calls, raised].  The primary
\* generator is run through run_command and its failure is meant to be caught
\* by "except subprocess.CalledProcessError"; the fallback is run through
\* subprocess.check_output inside "except Exception".
generate_env_if_missing(st, gen_script, gen_fallback, primary, fallback) ==
    LET ran1 == gen_script
        exc == IF ran1 /\ primary = "fail"
                  THEN run_command(Process("nonzero", NoTimeout), FALSE, NoTimeout).raised
                  ELSE None
        escaped == exc # None /\ ~Catches("CalledProcessError", exc)
        root1 == IF ran1 /\ primary \notin {"fail", "none"}
                    THEN Generated(primary) ELSE st.root
        ran2 == ~escaped /\ ~Exists(root1) /\ gen_fallback
        root2 == IF ran2 /\ fallback # "fail" THEN Generated(fallback) ELSE root1
    IN  [root |-> IF escaped THEN st.root ELSE root2,
         calls |-> st.calls + (IF ran1 THEN 1 ELSE 0) + (IF ran2 THEN 1 ELSE 0),
         raised |-> IF escaped THEN "gen_all_in_one_env.py" ELSE None]

\* the copy left out when the destination exists
copyfile_if_absent(src, dst) == IF Exists(dst) THEN dst ELSE src

\* shutil.copyfile(root_env, supabase_env): the content of dst afterwards
copyfile(src, dst) == src

\* prepare_supabase_env() in three stages; e holds what the file system and
\* the generator processes do.  Lines 246-248: generate when there is no file.
FirstGeneration(root0, e) ==
    LET s0 == [root |-> root0, calls |-> 0, raised |-> None] IN
    IF ~Exists(root0)
       THEN generate_env_if_missing(s0, e.gen_script, e.gen_fallback,
                                    e.primary1, e.fallback1)
       ELSE s0

\* Lines 264-271: "if missing:" generate once more.  was_missing keeps the
\* outcome of the first "if missing:".
SecondGeneration(s1, e) ==
    IF s1.raised = None /\ missing(s1.root) # {}
       THEN [was_missing |-> TRUE,
             st |-> generate_env_if_missing(s1, e.gen_script, e.gen_fallback,
                                            e.primary2, e.fallback2)]
       ELSE [was_missing |-> FALSE, st |-> s1]

\* Lines 273-285: still missing, run the fallback generator by itself.
ThirdGeneration(s2, e) ==
    LET ran3 == /\ s2.st.raised = None
                /\ s2.was_missing
                /\ e.gen_fallback
                /\ missing(s2.st.root) # {}
    IN  [root |-> IF ran3 /\ e.fallback3 # "fail"
                     THEN Generated(e.fallback3) ELSE s2.st.root,
         calls |-> s2.st.calls + (IF ran3 THEN 1 ELSE 0),
         raised |-> s2.st.raised,
         was_missing |-> s2.was_missing]

\* Lines 286-298: the warning and the copy.
\* Result: [root, shadow, calls, raised, warned].
WarnAndCopy(s3, shadow0) ==
    [root |-> s3.root,
     shadow |-> IF s3.raised = None /\ Exists(s3.root)
                   THEN copyfile(s3.root, shadow0) ELSE shadow0,
     calls |-> s3.calls,
     raised |-> s3.raised,
     warned |-> s3.raised = None /\ s3.was_missing /\ missing(s3.root) # {}]

\* The whole function: each stage works on the outcome of the one before.
prepare_supabase_env(root0, shadow0, e) ==
    CHOOSE r \in {WarnAndCopy(s3, shadow0) :
                    s3 \in {ThirdGeneration(s2, e) :
                              s2 \in {SecondGeneration(s1, e) :
                                        s1 \in {FirstGeneration(root0, e)}}}} : TRUE

GenEnvs == [gen_script : BOOLEAN, gen_fallback : BOOLEAN,
            primary1 : PrimaryOutcomes, fallback1 : FallbackOutcomes,
            primary2 : PrimaryOutcomes, fallback2 : FallbackOutcomes,
            fallback3 : FallbackOutcomes]

\* In a whole launch each generator script does the same every time it is run.
LaunchGenEnvs == {e \in GenEnvs : /\ e.primary2 = e.primary1
                                  /\ e.fallback2 = e.fallback1
                                  /\ e.fallback3 = e.fallback1}

\* One call of prepare_supabase_env(), made at position `at` of the caller,
\* which goes on at `next` when the call returns.  Envs: what the generators
\* may do; r: what the call does then.
PrepareSupabaseEnv(at, next, Envs) ==
    /\ pc = at
    /\ \E e \in Envs : \E r \in {prepare_supabase_env(rootEnv, shadowEnv, e)} :
          /\ rootEnv' = r.root
          /\ shadowEnv' = r.shadow
          /\ genCalls' = r.calls
          /\ output' = IF r.warned THEN output \cup {"env keys still missing"}
                       ELSE output
          /\ IF r.raised # None
                THEN /\ Abort(r.raised)
                     /\ cmdFailures' = cmdFailures \cup {r.raised}
                ELSE /\ pc' = next
                     /\ UNCHANGED <<exitCode, raisedBy, cmdFailures>>
    /\ UNCHANGED <<args, issued, cwd>>
    /\ UNCHANGED <<waitVars, portVars, overlayVars>>
    /\ UNCHANGED <<runCall, runReturn, env_vals, composeVars, parseVars, auxVars>>

(***************************************************************************)
(* SearXNG set-up: both functions catch every exception they can meet      *)
(***************************************************************************)
GenerateSearxngSecretKey ==
    /\ pc = "generate_searxng_secret_key"
    /\ pc' = "check_and_fix_docker_compose_for_searxng"
    \* the count is that of the call of prepare_supabase_env just returned
    /\ genCalls' = 0
    /\ UNCHANGED <<args, exitCode, issued, cmdFailures, raisedBy, output>>
    /\ UNCHANGED <<envVars, waitVars, portVars, overlayVars>>
    /\ UNCHANGED <<runCall, runReturn, env_vals, composeVars, parseVars, auxVars>>

AfterChecksIgnoringPreflight(a) == "stop_existing_containers"
\* "if args.preflight: return": where main goes on after the set-up checks
AfterChecks(a) == IF a.preflight THEN "Preflight" ELSE "stop_existing_containers"

\* The content of docker-compose.yml is a sequence of pieces of text: the
\* directive, the text put in front of it and behind it to comment it out,
\* and other text.
Directive == "cap_drop: - ALL"
Hash == "# "
Marker == "  # Temporarily commented out for first run"
Active == <<Directive>>
CommentedOut == <<Hash, Directive, Marker>>

\* old in content
Contains(content, old) ==
    \E i \in 1..(Len(content) - Len(old) + 1) :
        SubSeq(content, i, i + Len(old) - 1) = old

\* content.replace(old, new): every occurrence, from the left
RECURSIVE replace(_, _, _)
replace(content, old, new) ==
    IF Len(content) < Len(old) THEN content
    ELSE IF SubSeq(content, 1, Len(old)) = old
        THEN new \o replace(SubSeq(content, Len(old) + 1, Len(content)), old, new)
    ELSE <<Head(content)>> \o replace(Tail(content), old, new)

\* Lines 802-819: what check_and_fix_docker_compose_for_searxng leaves in
\* the file, given is_first_run.
check_and_fix_docker_compose_for_searxng(content, is_first_run) ==
    IF is_first_run /\ Contains(content, Active)
       THEN replace(content, Active, CommentedOut)
    ELSE IF ~is_first_run /\ Contains(content, CommentedOut)
       THEN replace(content, CommentedOut, Active)
    ELSE content

CheckAndFixDockerComposeForSearxng ==
    /\ pc = "check_and_fix_docker_compose_for_searxng"
    /\ \E is_first_run \in BOOLEAN :
          composeText' =
              check_and_fix_docker_compose_for_searxng(composeText, is_first_run)
    /\ IF AfterChecks(args) = "Preflight"
          THEN /\ pc' = "Preflight"
               /\ exitCode' = <<0>>
               /\ output' = output \cup {"preflight completed"}
          ELSE /\ pc' = "stop_existing_containers"
               /\ UNCHANGED <<exitCode, output>>
    /\ UNCHANGED <<args, issued, cmdFailures, raisedBy>>
    /\ UNCHANGED <<envVars, waitVars, portVars, overlayVars>>
    /\ UNCHANGED <<runCall, runReturn, genCalls, env_vals, composeVars, parseVars>>
    /\ UNCHANGED <<composeText0, fixRuns, overlayDoc, probeVars, localai>>

(***************************************************************************)
(* Mandatory phases: stop, dependency starts                               *)
(***************************************************************************)
\* A phase function runs one compose command through run_command inside
\* "try: ... except subprocess.CalledProcessError".  The outcome is "ok",
\* "caught" (the handler ran) or "raised".  A handler that ends in "raise"
\* re-raises what it caught.
PhaseOutcome(proc, reraises) ==
    LET r == run_command(Process(proc, NoTimeout), FALSE, NoTimeout) IN
    IF r.raised = None THEN "ok"
    ELSE IF Catches("CalledProcessError", r.raised) /\ ~reraises THEN "caught"
    ELSE "raised"

\* stop_existing_containers(profile): "docker compose ... down"
stop_existing_containers(proc) == PhaseOutcome(proc, FALSE)

\* start_supabase(environment): "docker compose ... up -d", handler re-raises
start_supabase(proc) == PhaseOutcome(proc, TRUE)

\* start_neo4j(): "up -d neo4j"; the handler would fall back to a full
\* "up -d" whose own failure is only printed.  Result: [outcome, fallback].
start_neo4j(proc, fallback) ==
    LET first == PhaseOutcome(proc, FALSE) IN
    IF first # "caught" THEN [outcome |-> first, fallback |-> FALSE]
    ELSE [outcome |-> IF PhaseOutcome(fallback, FALSE) = "raised"
                         THEN "raised" ELSE "ok",
          fallback |-> TRUE]

\* main(): "if not getattr(args, 'skip_neo4j', False): start_neo4j() ..."
AfterStopIgnoringSkip(a) == "start_neo4j"

AfterStop(a) == IF a.skip_neo4j THEN "start_supabase" ELSE "start_neo4j"

StopExistingContainers ==
    /\ pc = "stop_existing_containers"
    /\ issued' = Append(issued, "down")
    /\ \E proc \in ProcOutcomes :
          LET o == stop_existing_containers(proc) IN
          /\ cmdFailures' = IF proc = "ok" THEN cmdFailures
                            ELSE cmdFailures \cup {"down"}
          /\ IF o = "raised"
                THEN Abort("down")
                ELSE /\ pc' = AfterStop(args)
                     /\ UNCHANGED <<exitCode, raisedBy>>
          /\ output' = output \cup
                 (IF o = "caught" THEN {"docker compose down failed"} ELSE {})
                 \cup (IF o # "raised" /\ args.skip_neo4j
                          THEN {"Skipping Neo4j"} ELSE {})
    /\ UNCHANGED args
    /\ UNCHANGED <<envVars, waitVars, portVars, overlayVars>>
    /\ UNCHANGED unitVars

StartNeo4j ==
    /\ pc = "start_neo4j"
    /\ \E proc \in ProcOutcomes, fallback \in ProcOutcomes :
          LET r == start_neo4j(proc, fallback) IN
          /\ issued' = IF r.fallback
                          THEN issued \o <<"up neo4j", "up (fallback)">>
                          ELSE Append(issued, "up neo4j")
          /\ cmdFailures' = cmdFailures
                 \cup (IF proc = "ok" THEN {} ELSE {"up neo4j"})
                 \cup (IF r.fallback /\ fallback # "ok"
                          THEN {"up (fallback)"} ELSE {})
          /\ IF r.outcome = "raised"
                THEN /\ Abort(IF r.fallback THEN "up (fallback)" ELSE "up neo4j")
                     /\ UNCHANGED <<timeout, elapsed>>
                ELSE \* wait_for_neo4j(): start = time.time()
                     /\ pc' = "wait_for_neo4j"
                     /\ timeout' = Neo4jTimeout
                     /\ elapsed' = 0
                     /\ UNCHANGED <<exitCode, raisedBy>>
    /\ UNCHANGED <<args, output, ready, answered, delay, waitResult>>
    /\ UNCHANGED <<envVars, portVars, overlayVars>>
    /\ UNCHANGED unitVars

StartSupabase ==
    /\ pc = "start_supabase"
    /\ issued' = Append(issued, "up supabase")
    /\ \E proc \in ProcOutcomes :
          LET o == start_supabase(proc) IN
          /\ cmdFailures' = IF proc = "ok" THEN cmdFailures
                            ELSE cmdFailures \cup {"up supabase"}
          /\ IF o = "raised"
                THEN /\ Abort("up supabase")
                     /\ UNCHANGED <<timeout, elapsed>>
                ELSE \* wait_for_supabase(): start = time.time()
                     /\ pc' = "wait_for_supabase"
                     /\ timeout' = SupabaseTimeout
                     /\ elapsed' = 0
                     /\ UNCHANGED <<exitCode, raisedBy>>
    /\ UNCHANGED <<args, output, ready, answered, delay, waitResult>>
    /\ UNCHANGED <<envVars, portVars, overlayVars>>
    /\ UNCHANGED unitVars

(***************************************************************************)
(* Readiness waits                                                         *)
(***************************************************************************)
\* What a server does with a probe: 0 is no HTTP answer at all (refused,
\* timed out), any other value is the status of its answer.
Statuses == {200, 401, 503}
Responses == {0} \cup Statuses
\* curl -w '%{http_code}' and the in-container python print any status
InnerResponses == {0, 200, 404, 999}

\* http_get(url): urllib.request.urlopen returns for a 2xx answer and raises
\* HTTPError for any other status; "except Exception: return None".
\* None is modelled as 0 (both are false in "if code and code < 600").
http_get(resp) == IF 200 <= resp /\ resp < 300 THEN resp ELSE 0

\* "if code and code < 600"
Up(code) == code # 0 /\ code < StatusLimit

RECURSIVE SumOver(_, _)
SumOver(f, S) ==
    IF S = {} THEN 0
    ELSE LET x == CHOOSE y \in S : TRUE IN f[x] + SumOver(f, S \ {x})

\* Targets probed before Targets[i] in one pass of "for name, url in
\* targets.items()": the earlier ones that were not yet ready.
ProbedBefore(i, rdy) == {Targets[j] : j \in {k \in 1..(i - 1) : Targets[k] \notin rdy}}

IndexOf(t) == CHOOSE i \in 1..Len(Targets) : Targets[i] = t

\* Start time of the probe of target t in the pass that begins at time now.
ProbeTime(t, now, rdy, dur) == now + SumOver(dur, ProbedBefore(IndexOf(t), rdy))

\* The server of target t answers, with 200, from time delay[t] on.
FollowsDelay(resp, dur) ==
    \A t \in TargetNames \ ready :
        resp[t] = IF ProbeTime(t, elapsed, ready, dur) >= delay[t] THEN 200 ELSE 0

\* The wait is over: back in main(), which calls the next phase.
WaitReturns(result, next) ==
    /\ waitResult' = <<result>>
    /\ pc' = next
    /\ issued' = Append(issued, pc)

\* "if len(ready) == len(targets)"
AnyReady(rdy) == rdy # {}

AllReady(rdy) == Cardinality(rdy) = Len(Targets)

\* One pass of the while loop of wait_for_supabase, up to its sleep.
\* "for name, url in targets.items(): if name in ready: continue": the
\* targets the pass probes, in the order of the dict.
to_probe(rdy) == SelectSeq(Targets, LAMBDA t : t \notin rdy)

wait_for_supabase_pass(resp, dur, next) ==
    LET probed == {to_probe(ready)[i] : i \in 1..Len(to_probe(ready))}
        now_ready == ready \cup {t \in probed : Up(http_get(resp[t]))}
    IN  /\ ready' = now_ready
        /\ answered' = (answered \ probed) \cup {t \in probed : resp[t] # 0}
        /\ IF AllReady(now_ready)
              THEN /\ WaitReturns(TRUE, next)
                   /\ UNCHANGED elapsed
              ELSE /\ elapsed' = elapsed + SumOver(dur, probed) + SupabasePoll
                   /\ UNCHANGED <<pc, issued, waitResult>>

\* Durs: how long a probe may take, at most the timeout of http_get.
\* logged: the probes of the pass are kept in polled (the wait on its own).
WaitForSupabasePass(byDelay, Durs, next, logged) ==
    /\ pc = "wait_for_supabase"
    /\ elapsed < timeout
    /\ \E resp \in [TargetNames -> Responses],
          dur \in [TargetNames -> Durs] :
          /\ byDelay => FollowsDelay(resp, dur)
          /\ wait_for_supabase_pass(resp, dur, next)
    /\ polled' = IF logged THEN to_probe(ready) ELSE polled
    /\ UNCHANGED <<args, exitCode, cmdFailures, raisedBy, output, timeout, delay>>
    /\ UNCHANGED <<envVars, portVars, overlayVars>>
    /\ UNCHANGED <<runCall, runReturn, genCalls, env_vals, composeVars, parseVars>>
    /\ UNCHANGED <<composeText, composeText0, fixRuns, overlayDoc, tried, localai>>

\* "while time.time() - start < timeout" is false: print the warning and
\* return False.
wait_timeout_raising(next, message) ==
    /\ Abort(pc)
    /\ output' = output \cup {message}
    /\ UNCHANGED <<issued, waitResult>>

wait_timeout(next, message) ==
    /\ WaitReturns(FALSE, next)
    /\ output' = output \cup {message}
    /\ UNCHANGED <<exitCode, raisedBy>>

WaitForSupabaseTimeout(next) ==
    /\ pc = "wait_for_supabase"
    /\ elapsed >= timeout
    /\ wait_timeout(next, "Timeout waiting for Supabase")
    /\ UNCHANGED <<args, cmdFailures, timeout, elapsed, ready, answered, delay>>
    /\ UNCHANGED <<envVars, portVars, overlayVars>>
    /\ UNCHANGED unitVars

\* One pass of the while loop of wait_for_neo4j: host probe, then, when a
\* container is found, curl inside it, python inside it, its logs.
\* Result: ready ("return True") and the calls made, each with what it gave.
wait_for_neo4j_pass_all(host, cname, curl, python, logs) ==
    [ready |-> Up(http_get(host)) \/ Up(curl) \/ Up(python) \/ logs,
     tried |-> <<<<"check_host", Up(http_get(host))>>,
                 <<"find_neo4j_container", cname # None>>,
                 <<"check_inside_with_curl", Up(curl)>>,
                 <<"check_inside_with_python", Up(python)>>,
                 <<"logs_indicate_ready", logs>>>>]

wait_for_neo4j_pass(host, cname, curl, python, logs) ==
    LET h == <<<<"check_host", Up(http_get(host))>>>>
        f == h \o <<<<"find_neo4j_container", cname # None>>>>
        c == f \o <<<<"check_inside_with_curl", Up(curl)>>>>
        p == c \o <<<<"check_inside_with_python", Up(python)>>>>
        l == p \o <<<<"logs_indicate_ready", logs>>>>
    IN  IF Up(http_get(host)) THEN [ready |-> TRUE, tried |-> h]
        ELSE IF cname = None THEN [ready |-> FALSE, tried |-> f]
        ELSE IF Up(curl) THEN [ready |-> TRUE, tried |-> c]
        ELSE IF Up(python) THEN [ready |-> TRUE, tried |-> p]
        ELSE [ready |-> logs, tried |-> l]

\* In a whole launch a probe is answered or refused at once, or runs into
\* the timeout of http_get.
LaunchDurs == {0, HttpTimeout}

\* logged: the calls of the pass are kept in tried (the wait on its own).
WaitForNeo4jPass(logged) ==
    /\ pc = "wait_for_neo4j"
    /\ elapsed < timeout
    /\ \E host \in Responses, cname \in {None, "neo4j"},
          curl \in InnerResponses, python \in InnerResponses, logs \in BOOLEAN,
          dur \in LaunchDurs, exec \in {0, MaxExecTime} :
       \E r \in {wait_for_neo4j_pass(host, cname, curl, python, logs)} :
          /\ tried' = IF logged THEN r.tried ELSE tried
          /\ IF r.ready
                THEN \* back in main(): the locals of the wait are gone
                     /\ WaitReturns(TRUE, "start_supabase")
                     /\ elapsed' = 0
                     /\ timeout' = 0
                ELSE /\ elapsed' = elapsed + dur + exec + Neo4jPoll
                     /\ UNCHANGED <<pc, issued, waitResult, timeout>>
    /\ UNCHANGED <<args, exitCode, cmdFailures, raisedBy, output,
                   ready, answered, delay>>
    /\ UNCHANGED <<envVars, portVars, overlayVars>>
    /\ UNCHANGED <<runCall, runReturn, genCalls, env_vals, composeVars, parseVars>>
    /\ UNCHANGED <<composeText, composeText0, fixRuns, overlayDoc, polled, localai>>

WaitForNeo4jTimeout ==
    /\ pc = "wait_for_neo4j"
    /\ elapsed >= timeout
    /\ wait_timeout("start_supabase", "Timeout waiting for Neo4j")
    /\ elapsed' = 0
    /\ timeout' = 0
    /\ UNCHANGED <<args, cmdFailures, ready, answered, delay>>
    /\ UNCHANGED <<envVars, portVars, overlayVars>>
    /\ UNCHANGED unitVars

\* wait_for_supabase has returned to main(): its locals are gone.
WaitForSupabaseReturned ==
    /\ pc = "wait_for_supabase returned"
    /\ pc' = "start_local_ai"
    /\ timeout' = 0
    /\ elapsed' = 0
    /\ ready' = {}
    /\ answered' = {}
    /\ UNCHANGED <<args, exitCode, issued, cmdFailures, raisedBy, output,
                   delay, waitResult>>
    /\ UNCHANGED <<envVars, portVars, overlayVars>>
    /\ UNCHANGED unitVars

(***************************************************************************)
(* start_local_ai: local images, port remapping, overlay, compose up       *)
(***************************************************************************)
\* ensure_local_images(): TRUE when the exception of a failed "docker build"
\* leaves the function ("except subprocess.CalledProcessError" is meant to
\* print it).  inspect: whether "docker image inspect" finds the image.
ensure_local_images(inspect, dockerfile, build) ==
    /\ ~inspect
    /\ dockerfile
    /\ LET r == run_command(Process(build, NoTimeout), FALSE, NoTimeout) IN
       /\ r.raised # None
       /\ ~Catches("CalledProcessError", r.raised)

EnsureLocalImages ==
    /\ pc = "start_local_ai"
    /\ \E inspect \in BOOLEAN, dockerfile \in BOOLEAN, build \in ProcOutcomes :
          IF ensure_local_images(inspect, dockerfile, build)
             THEN /\ Abort("docker build")
                  /\ cmdFailures' = cmdFailures \cup {"docker build"}
             ELSE /\ pc' = "resolve ports"
                  /\ UNCHANGED <<exitCode, raisedBy, cmdFailures>>
    /\ UNCHANGED <<args, issued, output>>
    /\ UNCHANGED <<envVars, waitVars, portVars, overlayVars>>
    /\ UNCHANGED unitVars

check_output_found(proc) == subprocess_run(proc, FALSE, NoTimeout)
\* subprocess.check_output(cmd, text=True): the exception it raises, or None
check_output(proc) == subprocess_run(proc, TRUE, NoTimeout)

\* get_listening_ports(): "ss -ltnp"; inside "except Exception" of that,
\* "lsof"; inside "except Exception" of that, the empty set.  ss, lsof: what
\* the two processes do.  Result: the ports and the tools run.
get_listening_ports(ss, lsof, hostPorts) ==
    IF check_output(Process(ss, NoTimeout)) = None
       THEN [ports |-> hostPorts, tools |-> <<<<"ss", ss>>>>]
    ELSE IF check_output(Process(lsof, NoTimeout)) = None
       THEN [ports |-> hostPorts, tools |-> <<<<"ss", ss>>, <<"lsof", lsof>>>>]
    ELSE [ports |-> {}, tools |-> <<<<"ss", ss>>, <<"lsof", lsof>>>>]

\* Lines of the override file are sequences of pieces: "-", " ", a quote, an
\* address, ":" and numbers in digits.
Loopback == "127.0.0.1"
NumberPieces == {"8080", "8081", "80", "3001"}
\* int(m.group(k))
int(t) == CASE t = "8080" -> 8080 [] t = "8081" -> 8081
            [] t = "80" -> 80 [] t = "3001" -> 3001

\* The text a line goes on with after its first piece and the blanks that
\* follow it: what "-\s*" leaves.
RECURSIVE SkipBlanks(_)
SkipBlanks(l) ==
    IF l # <<>> /\ Head(l) \in Whitespace THEN SkipBlanks(Tail(l)) ELSE l

AfterDash(l) == IF l # <<>> /\ Head(l) = "-" THEN <<SkipBlanks(Tail(l))>> ELSE <<>>

\* (\d+):(\d+) at the head of t
PortPairAt(t) ==
    /\ Len(t) >= 3
    /\ t[1] \in NumberPieces
    /\ t[2] = ":"
    /\ t[3] \in NumberPieces

MatchAnyAddress(l) ==
    LET a == AfterDash(l) IN
    IF a = <<>> THEN <<>>
    ELSE IF PortPairAt(a[1]) THEN <<a[1]>>
    ELSE IF Len(a[1]) >= 2 /\ a[1][2] = ":" /\ PortPairAt(SubSeq(a[1], 3, Len(a[1])))
        THEN <<SubSeq(a[1], 3, Len(a[1]))>>
    ELSE <<>>

\* re.match(r"-\s*127\.0\.0\.1:(\d+):(\d+)", line): <<>> when the line does not
\* match, else <<the text from the first group on>>.
Match(l) ==
    LET a == AfterDash(l) IN
    IF a = <<>> THEN <<>>
    ELSE IF /\ Len(a[1]) >= 2
            /\ a[1][1] = Loopback
            /\ a[1][2] = ":"
            /\ PortPairAt(SubSeq(a[1], 3, Len(a[1])))
        THEN <<SubSeq(a[1], 3, Len(a[1]))>>
    ELSE <<>>

\* parse_private_override_ports(path): the list under '__anonymous__'
RECURSIVE parse_private_override_ports(_)
parse_private_override_ports(lines) ==
    IF lines = <<>> THEN <<>>
    ELSE LET m == Match(strip(Head(lines))) IN
         (IF m # <<>> THEN <<<<int(m[1][1]), int(m[1][3])>>>> ELSE <<>>)
         \o parse_private_override_ports(Tail(lines))

\* The port lines of the temporary override: "- '127.0.0.1:{new_p}:{cont_p}'"
\* for every remap, as <<address, new_p, cont_p>>.
overlay_ports(rm) == [k \in 1..Len(rm) |-> <<Loopback, rm[k][3], rm[k][2]>>]

\* docker-compose.yml read line by line ("for line in f"): the content is cut
\* after every "\n".
RECURSIVE SplitLines(_, _)
SplitLines(content, line) ==
    IF content = <<>> THEN (IF line = <<>> THEN <<>> ELSE <<line>>)
    ELSE IF Head(content) = "\n" THEN <<line>> \o SplitLines(Tail(content), <<>>)
    ELSE SplitLines(Tail(content), Append(line, Head(content)))

\* Blanks at the ends of a line: an indentation step is the piece of two.
Blanks == {" ", "  "}
RECURSIVE ltrim(_)
ltrim(l) == IF l # <<>> /\ Head(l) \in Blanks THEN ltrim(Tail(l)) ELSE l
RECURSIVE rtrim(_)
rtrim(l) ==
    IF l # <<>> /\ l[Len(l)] \in Blanks THEN rtrim(SubSeq(l, 1, Len(l) - 1)) ELSE l

\* pieces that are [a-zA-Z0-9_-]+
NamePieces == {"services", "n8n", "flowise", "expose", "ports"}

\* re.match(r'^(\s*)([a-zA-Z0-9_-]+):\s*$', line) and line.startswith('  ')
IsServiceLine(l) ==
    LET t == rtrim(ltrim(l)) IN
    /\ Len(t) = 2
    /\ t[1] \in NamePieces
    /\ t[2] = ":"
    /\ l[1] = "  "

\* re.search(r"-\s*(\d+)(?:/tcp)?\s*$", line.strip()): <<>> or <<the number>>
PortOfLine(l) ==
    LET t == rtrim(ltrim(l))
        u == IF t # <<>> /\ t[Len(t)] = "/tcp" THEN SubSeq(t, 1, Len(t) - 1) ELSE t
        v == IF u = <<>> THEN <<>> ELSE rtrim(SubSeq(u, 1, Len(u) - 1))
    IN  IF u # <<>> /\ u[Len(u)] \in NumberPieces /\ v # <<>> /\ v[Len(v)] = "-"
           THEN <<int(u[Len(u)])>> ELSE <<>>

\* The scan of docker-compose.yml, lines 581-591: cur is <<cur_service>> or
\* <<>> for None, map is contport_to_service.
RECURSIVE scan_compose(_, _, _)
scan_compose(lines, cur, map) ==
    IF lines = <<>> THEN map
    ELSE LET l == Head(lines)
             cur1 == IF IsServiceLine(l) THEN <<rtrim(ltrim(l))[1]>> ELSE cur
             pm == PortOfLine(l)
             map1 == IF pm # <<>> /\ cur1 # <<>>
                        THEN [cp \in DOMAIN map \cup {pm[1]} |->
                                IF cp = pm[1] THEN cur1[1] ELSE map[cp]]
                        ELSE map
         IN  scan_compose(Tail(lines), cur1, map1)

\* f'unknown_{cont_p}'
UnknownService(cont_p) ==
    CASE cont_p = 80 -> "unknown_80" [] cont_p = 3001 -> "unknown_3001"

\* svc_to_ports.setdefault(srvname, []).append((new_p, cont_p)): the dict as
\* the sequence of its items in the order they were inserted.
setdefault_append(doc, srvname, entry) ==
    IF \E d \in 1..Len(doc) : doc[d].service = srvname
       THEN [d \in 1..Len(doc) |->
               IF doc[d].service = srvname
                  THEN [service |-> srvname, ports |-> Append(doc[d].ports, entry)]
                  ELSE doc[d]]
       ELSE Append(doc, [service |-> srvname, ports |-> <<entry>>])

\* Lines 593-603: the services of the overlay with their port lines
\* "- '127.0.0.1:{new_p}:{cont_p}'", given contport_to_service.
RECURSIVE overlay_document(_, _, _)
overlay_document(rm, map, doc) ==
    IF rm = <<>> THEN doc
    ELSE LET cont_p == Head(rm)[2]
             new_p == Head(rm)[3]
             srvname == IF cont_p \in DOMAIN map THEN map[cont_p]
                        ELSE UnknownService(cont_p)
         IN  overlay_document(Tail(rm), map,
                 setdefault_append(doc, srvname, <<Loopback, new_p, cont_p>>))

\* find_next_free_port(start, used)
RECURSIVE find_next_free_port_unfloored(_, _)
find_next_free_port_unfloored(start, used) ==
    IF start \in used THEN find_next_free_port_unfloored(start + 1, used)
    ELSE start

RECURSIVE find_next_free_port(_, _)
find_next_free_port(start, used) ==
    IF start \in used \/ start < FirstUnprivileged
       THEN find_next_free_port(start + 1, used)
       ELSE start

\* The remap loop of start_local_ai over parsed['__anonymous__'], from pair i
\* on: lst is the listening set, which the loop extends, rm the remap list.
RECURSIVE RemapLoop(_, _, _, _)
RemapLoop(decl, i, lst, rm) ==
    IF i > Len(decl) THEN [remap |-> rm, listening |-> lst]
    ELSE LET host_p == decl[i][1]
             cont_p == decl[i][2]
         IN  IF host_p \in lst
                THEN LET new_p == find_next_free_port(host_p + 1, lst) IN
                     RemapLoop(decl, i + 1, lst \cup {new_p},
                               Append(rm, <<host_p, cont_p, new_p>>))
                ELSE RemapLoop(decl, i + 1, lst, rm)

\* The compose command of the main stack.
ComposeCommand(profile, environment, temp_path) ==
    <<"docker", "compose", "-p", "localai">>
    \o (IF profile # "none" THEN <<"--profile", profile>> ELSE <<>>)
    \o <<"-f", "docker-compose.yml">>
    \o (IF environment = "private"
           THEN <<"-f", "docker-compose.override.private.yml">> ELSE <<>>)
    \o (IF environment = "public"
           THEN <<"-f", "docker-compose.override.public.yml">> ELSE <<>>)
    \o (IF temp_path # None THEN <<"-f", temp_path>> ELSE <<>>)
    \o <<"up", "-d">>

\* "if remap:" the overlay is written with tempfile.mkstemp
WritesOverlayAlways(rm) == TRUE

WritesOverlay(rm) == rm # <<>>

TempPath == "docker-override-.yml"

\* Inputs of one launch: the 127.0.0.1 pairs of the private override file
\* and the ports bound on the host.
LaunchPairs == {<<8080, 80>>, <<8081, 3001>>}
LaunchHostPorts == {8080, 8081}

SeqsUpTo(S, n) == UNION {[1..k -> S] : k \in 0..n}

\* From the port scan to the moment "docker compose ... up -d" is running.
StartLocalAi ==
    /\ pc = "resolve ports"
    /\ \E decl \in SeqsUpTo(LaunchPairs, MaxLaunchDeclared),
          hostPorts \in SUBSET LaunchHostPorts,
          ss \in ProcOutcomes, lsof \in ProcOutcomes :
          LET g == get_listening_ports(ss, lsof, hostPorts)
              lst == g.ports
              r == RemapLoop(decl, 1, lst, <<>>)
              path == IF WritesOverlay(r.remap) THEN TempPath ELSE None
          IN  /\ declared' = decl
              /\ portTools' = g.tools
              /\ listening0' = lst
              /\ listening' = r.listening
              /\ remap' = r.remap
              /\ temp_override_path' = path
              /\ overlayExists' = (path # None)
              /\ cmd' = ComposeCommand(args.profile, args.environment, path)
              /\ output' = IF path # None
                              THEN output \cup {"Wrote temporary compose override"}
                              ELSE output
    /\ issued' = Append(issued, "up main")
    /\ pc' = "main up running"
    /\ UNCHANGED <<args, exitCode, cmdFailures, raisedBy>>
    /\ UNCHANGED <<envVars, waitVars>>
    /\ UNCHANGED unitVars

\* "finally:" of start_local_ai: remove the overlay when one was written.
CleanupSuccessOnly(raised) ==
    IF raised THEN overlayExists
    ELSE IF temp_override_path # None /\ overlayExists THEN FALSE
    ELSE overlayExists

Cleanup(raised) ==
    IF temp_override_path # None /\ overlayExists THEN FALSE ELSE overlayExists

\* The compose command returns; start_local_ai returns or raises.
MainUpReturns ==
    /\ pc = "main up running"
    /\ \E proc \in ProcOutcomes :
          LET o == PhaseOutcome(proc, TRUE) IN
          /\ overlayExists' = Cleanup(o = "raised")
          /\ cmdFailures' = IF proc = "ok" THEN cmdFailures
                            ELSE cmdFailures \cup {"up main"}
          /\ IF o = "raised"
                THEN Abort("up main")
                ELSE /\ raisedBy' = raisedBy
                     /\ IF args.start_nextjs
                           THEN pc' = "start_nextjs_dev" /\ exitCode' = exitCode
                           ELSE pc' = "Done" /\ exitCode' = <<0>>
    \* the locals of start_local_ai are gone
    /\ temp_override_path' = None
    /\ cmd' = <<>>
    /\ declared' = <<>>
    /\ listening0' = {}
    /\ listening' = {}
    /\ remap' = <<>>
    /\ portTools' = <<>>
    /\ UNCHANGED <<args, issued, output>>
    /\ UNCHANGED <<envVars, waitVars>>
    /\ UNCHANGED unitVars

\* start_nextjs_dev() catches what Popen raises; main() then returns.
StartNextjsDev ==
    /\ pc = "start_nextjs_dev"
    /\ pc' = "Done"
    /\ exitCode' = <<0>>
    /\ UNCHANGED <<args, issued, cmdFailures, raisedBy, output>>
    /\ UNCHANGED <<envVars, waitVars, portVars, overlayVars>>
    /\ UNCHANGED unitVars

(***************************************************************************)
(* The launcher                                                            *)
(***************************************************************************)
Next ==
    \/ CloneSupabaseRepo
    \/ PrepareSupabaseEnv("prepare_supabase_env", "generate_searxng_secret_key",
                          LaunchGenEnvs)
    \/ GenerateSearxngSecretKey
    \/ CheckAndFixDockerComposeForSearxng
    \/ StopExistingContainers
    \/ StartNeo4j
    \/ WaitForNeo4jPass(FALSE)
    \/ WaitForNeo4jTimeout
    \/ StartSupabase
    \/ WaitForSupabasePass(FALSE, LaunchDurs, "wait_for_supabase returned", FALSE)
    \/ WaitForSupabaseTimeout("wait_for_supabase returned")
    \/ WaitForSupabaseReturned
    \/ EnsureLocalImages
    \/ StartLocalAi
    \/ MainUpReturns
    \/ StartNextjsDev

Spec == Init /\ [][Next]_vars

\* main() is one sequential thread: it keeps running until it returns or an
\* exception leaves it.
SpecLive == Spec /\ WF_vars(Next)

(***************************************************************************)
(* The launcher with external processes that never exit by themselves      *)
(***************************************************************************)
Command(name, limit) == [name |-> name, limit |-> limit]

\* External commands main() runs at each position, with the timeout each is
\* given: only "git clone" (and git fetch/pull) and http_get have one.
CommandsAt(p) ==
    CASE p = "clone_supabase_repo" ->
            {Command("git clone", <<CloneTimeout>>), Command("git checkout", NoTimeout)}
      [] p = "prepare_supabase_env" -> {Command("gen_all_in_one_env.py", NoTimeout)}
      [] p = "generate_searxng_secret_key" -> {Command("openssl rand", NoTimeout)}
      [] p = "check_and_fix_docker_compose_for_searxng" -> {Command("docker ps", NoTimeout)}
      [] p = "stop_existing_containers" -> {Command("down", NoTimeout)}
      [] p = "start_neo4j" -> {Command("up neo4j", NoTimeout)}
      [] p = "wait_for_neo4j" ->
            {Command("docker ps", NoTimeout), Command("docker exec", NoTimeout),
             Command("docker logs", NoTimeout)}
      [] p = "start_supabase" -> {Command("up supabase", NoTimeout)}
      [] p = "wait_for_supabase" -> {Command("http_get", <<HttpTimeout>>)}
      [] p = "start_local_ai" -> {Command("docker build", NoTimeout)}
      [] p = "resolve ports" -> {Command("ss -ltnp", NoTimeout)}
      [] p = "main up running" -> {Command("up main", NoTimeout)}
      [] OTHER -> {}

\* One of these commands is run and its process never exits: subprocess.run
\* comes back only when it was given a timeout, else main() stays in the call.
Blocks ==
    /\ pc = "wait_for_neo4j" => elapsed < timeout
    /\ \E c \in CommandsAt(pc) :
          /\ subprocess_run(Process("hangs", c.limit), TRUE, c.limit) = "blocked"
          /\ issued' = IF pc = "main up running" THEN issued
                       ELSE Append(issued, c.name)
    /\ pc' = "Blocked"
    /\ UNCHANGED <<args, exitCode, cmdFailures, raisedBy, output>>
    /\ UNCHANGED <<envVars, waitVars, portVars, overlayVars>>
    /\ UNCHANGED unitVars

NextHang == Next \/ Blocks

SpecHang == Init /\ [][NextHang]_vars /\ WF_vars(NextHang)

(***************************************************************************)
(* The remap loop on its own                                               *)
(***************************************************************************)
Ports == (FirstUnprivileged - PortSpan)..(FirstUnprivileged + PortSpan)
ContPorts == {80, 3001}
PortPairs == {<<h, c>> : h \in Ports, c \in ContPorts}

\* start_local_ai has parsed the override file and read the listening ports.
InitResolve ==
    /\ pc = "remap loop"
    /\ args \in {a \in ArgsSet : ~a.preflight /\ ~a.skip_neo4j /\ ~a.start_nextjs}
    /\ exitCode = <<>>
    /\ issued = <<>>
    /\ cmdFailures = {}
    /\ raisedBy = None
    /\ output = {}
    /\ cwd = RepoDir
    /\ rootEnv = CompleteEnv
    /\ shadowEnv = CompleteEnv
    /\ NoWait
    /\ declared \in SeqsUpTo(PortPairs, MaxDeclared)
    /\ listening0 \in SUBSET Ports
    /\ listening = listening0
    /\ remap = <<>>
    /\ portTools = <<>>
    /\ NoOverlay
    /\ NoUnit

ResolvePorts ==
    /\ pc = "remap loop"
    /\ LET r == RemapLoop(declared, 1, listening, <<>>) IN
       /\ remap' = r.remap
       /\ listening' = r.listening
    /\ pc' = "remap done"
    /\ UNCHANGED <<args, exitCode, issued, cmdFailures, raisedBy, output,
                   declared, listening0, portTools>>
    /\ UNCHANGED <<envVars, waitVars, overlayVars>>
    /\ UNCHANGED unitVars

NextResolve == ResolvePorts

SpecResolve == InitResolve /\ [][NextResolve]_vars

\* The same pass over declared and listening ports at the upper end of the
\* port range.
HighPorts == (MaxPort - PortSpan)..MaxPort
HighPairs == {<<h, 80>> : h \in HighPorts}

InitRange ==
    /\ pc = "remap loop"
    /\ args \in {a \in ArgsSet : ~a.preflight /\ ~a.skip_neo4j /\ ~a.start_nextjs}
    /\ exitCode = <<>>
    /\ issued = <<>>
    /\ cmdFailures = {}
    /\ raisedBy = None
    /\ output = {}
    /\ cwd = RepoDir
    /\ rootEnv = CompleteEnv
    /\ shadowEnv = CompleteEnv
    /\ NoWait
    /\ declared \in SeqsUpTo(HighPairs, MaxDeclared)
    /\ listening0 \in SUBSET HighPorts
    /\ listening = listening0
    /\ remap = <<>>
    /\ portTools = <<>>
    /\ NoOverlay
    /\ NoUnit

NextRange == ResolvePorts

SpecRange == InitRange /\ [][NextRange]_vars

(***************************************************************************)
(* wait_for_neo4j(timeout) on its own                                      *)
(***************************************************************************)
InitNeo4j ==
    /\ pc = "wait_for_neo4j"
    /\ args \in {a \in ArgsSet : ~a.preflight /\ ~a.skip_neo4j /\ ~a.start_nextjs}
    /\ exitCode = <<>>
    /\ issued = <<>>
    /\ cmdFailures = {}
    /\ raisedBy = None
    /\ output = {}
    /\ cwd = RepoDir
    /\ rootEnv = CompleteEnv
    /\ shadowEnv = CompleteEnv
    /\ timeout \in 0..MaxWaitTimeout
    /\ elapsed = 0
    /\ ready = {}
    /\ answered = {}
    /\ delay = [t \in TargetNames |-> 0]
    /\ waitResult = <<>>
    /\ NoPorts
    /\ NoOverlay
    /\ NoUnit

NextNeo4j ==
    \/ WaitForNeo4jPass(TRUE)
    \/ WaitForNeo4jTimeout

SpecNeo4j == InitNeo4j /\ [][NextNeo4j]_vars

(***************************************************************************)
(* wait_for_supabase(timeout) on its own, against servers that start       *)
(* answering after a delay                                                 *)
(***************************************************************************)
InitWait ==
    /\ pc = "wait_for_supabase"
    /\ args \in {a \in ArgsSet : ~a.preflight /\ ~a.skip_neo4j /\ ~a.start_nextjs}
    /\ exitCode = <<>>
    /\ issued = <<>>
    /\ cmdFailures = {}
    /\ raisedBy = None
    /\ output = {}
    /\ cwd = RepoDir
    /\ rootEnv = CompleteEnv
    /\ shadowEnv = CompleteEnv
    /\ timeout \in 0..MaxWaitTimeout
    /\ elapsed = 0
    /\ ready = {}
    /\ answered = {}
    /\ delay \in [TargetNames -> 0..MaxDelay]
    /\ waitResult = <<>>
    /\ NoPorts
    /\ NoOverlay
    /\ NoUnit

NextWait ==
    \/ WaitForSupabasePass(TRUE, 0..HttpTimeout, "wait_for_supabase returned", FALSE)
    \/ WaitForSupabaseTimeout("wait_for_supabase returned")

SpecWait == InitWait /\ [][NextWait]_vars

\* The same wait against targets that answer each probe as they like.
InitPoll ==
    /\ pc = "wait_for_supabase"
    /\ args \in {a \in ArgsSet : ~a.preflight /\ ~a.skip_neo4j /\ ~a.start_nextjs}
    /\ exitCode = <<>>
    /\ issued = <<>>
    /\ cmdFailures = {}
    /\ raisedBy = None
    /\ output = {}
    /\ cwd = RepoDir
    /\ rootEnv = CompleteEnv
    /\ shadowEnv = CompleteEnv
    /\ timeout \in 0..MaxWaitTimeout
    /\ elapsed = 0
    /\ ready = {}
    /\ answered = {}
    /\ delay = [t \in TargetNames |-> 0]
    /\ waitResult = <<>>
    /\ NoPorts
    /\ NoOverlay
    /\ NoUnit

NextPoll ==
    \/ WaitForSupabasePass(FALSE, LaunchDurs, "wait_for_supabase returned", TRUE)
    \/ WaitForSupabaseTimeout("wait_for_supabase returned")

SpecPoll == InitPoll /\ [][NextPoll]_vars

(***************************************************************************)
(* Two launches against the project 'localai'                              *)
(*                                                                         *)
(* Every docker compose command of the launcher names the project with     *)
(* "-p localai"; two runs of the script share its containers.  Each run    *)
(* goes through main() from stop_existing_containers on; its waits and its *)
(* port checks leave the containers alone and are not steps here.          *)
(***************************************************************************)
\* services of docker-compose.yml ("main" stands for all of them but neo4j)
\* and of supabase/docker/docker-compose.yml
RootServices == {"neo4j", "main"}
SupabaseServices == {"supabase"}

\* "docker compose -p localai -f docker-compose.yml down": the containers of
\* the services of that file go; whether those of the project that the file
\* does not name go as well is left open.
down(containers, orphans) ==
    IF orphans THEN {} ELSE containers \ RootServices

\* "up -d": the named services run afterwards
up(containers, services) == containers \cup services

\* A variant in which a launch waits for the other one to be out of the way.
ready_to_stop_alone(a) ==
    /\ localai.at[a] = "stop_existing_containers"
    /\ \A b \in Attempts \ {a} :
          localai.at[b] \in {"stop_existing_containers", "Done", "Failed"}

\* main(): stop_existing_containers(args.profile) is called as soon as the
\* checks are done; neither main() nor the function takes a lock or looks
\* for another run.
ready_to_stop(a) == localai.at[a] = "stop_existing_containers"

\* The command has run: its effect on the project, and what the launch that
\* ran it brought up.
Ran(a, command, containers, services) ==
    [localai EXCEPT !.containers = containers,
                    !.started[a] = @ \cup services,
                    !.ran = Append(@, <<a, command>>)]

Moves(prj, a, outcome, next) ==
    [prj EXCEPT !.at[a] = IF outcome = "raised" THEN "Failed" ELSE next]

LaunchUnchanged ==
    /\ UNCHANGED <<launchVars, envVars, waitVars, portVars, overlayVars>>
    /\ UNCHANGED <<runCall, runReturn, genCalls, env_vals, composeVars, parseVars>>
    /\ UNCHANGED <<composeText, composeText0, fixRuns, overlayDoc, probeVars>>

ConcurrentStop(a) ==
    /\ ready_to_stop(a)
    /\ \E proc \in ProcOutcomes, orphans \in BOOLEAN :
          localai' = Moves(IF proc = "ok"
                              THEN Ran(a, "down", down(localai.containers, orphans), {})
                              ELSE localai,
                           a, stop_existing_containers(proc),
                           AfterStop([skip_neo4j |-> localai.skip_neo4j[a]]))
    /\ LaunchUnchanged

ConcurrentStartNeo4j(a) ==
    /\ localai.at[a] = "start_neo4j"
    /\ \E proc \in ProcOutcomes, fallback \in ProcOutcomes :
          LET r == start_neo4j(proc, fallback) IN
          localai' = Moves(IF proc = "ok"
                              THEN Ran(a, "up neo4j",
                                       up(localai.containers, {"neo4j"}), {"neo4j"})
                           ELSE IF r.fallback /\ fallback = "ok"
                              THEN Ran(a, "up (fallback)",
                                       up(localai.containers, RootServices),
                                       RootServices)
                           ELSE localai,
                           a, r.outcome, "start_supabase")
    /\ LaunchUnchanged

ConcurrentStartSupabase(a) ==
    /\ localai.at[a] = "start_supabase"
    /\ \E proc \in ProcOutcomes :
          localai' = Moves(IF proc = "ok"
                              THEN Ran(a, "up supabase",
                                       up(localai.containers, SupabaseServices),
                                       SupabaseServices)
                              ELSE localai,
                           a, start_supabase(proc), "start_local_ai")
    /\ LaunchUnchanged

\* start_local_ai: the handler of its "up -d" re-raises; main() then returns
ConcurrentStartLocalAi(a) ==
    /\ localai.at[a] = "start_local_ai"
    /\ \E proc \in ProcOutcomes :
          localai' = Moves(IF proc = "ok"
                              THEN Ran(a, "up",
                                       up(localai.containers, RootServices),
                                       RootServices)
                              ELSE localai,
                           a, PhaseOutcome(proc, TRUE), "Done")
    /\ LaunchUnchanged

InitTwo ==
    /\ pc = "stop_existing_containers"
    /\ args \in {a \in ArgsSet : ~a.preflight /\ ~a.skip_neo4j /\ ~a.start_nextjs}
    /\ exitCode = <<>>
    /\ issued = <<>>
    /\ cmdFailures = {}
    /\ raisedBy = None
    /\ output = {}
    /\ cwd = RepoDir
    /\ rootEnv = CompleteEnv
    /\ shadowEnv = CompleteEnv
    /\ NoWait
    /\ NoPorts
    /\ NoOverlay
    /\ NoCall
    /\ genCalls = 0
    /\ env_vals = <<>>
    /\ NoPatch
    /\ NoParse
    /\ composeText = PlainComposeText
    /\ composeText0 = PlainComposeText
    /\ fixRuns = <<>>
    /\ overlayDoc = <<>>
    /\ NoProbes
    /\ \E skip \in [Attempts -> BOOLEAN] :
          localai = [containers |-> {},
                     skip_neo4j |-> skip,
                     at |-> [a \in Attempts |-> "stop_existing_containers"],
                     started |-> [a \in Attempts |-> {}],
                     ran |-> <<>>]

NextTwo ==
    \E a \in Attempts :
        \/ ConcurrentStop(a)
        \/ ConcurrentStartNeo4j(a)
        \/ ConcurrentStartSupabase(a)
        \/ ConcurrentStartLocalAi(a)

SpecTwo == InitTwo /\ [][NextTwo]_vars

(***************************************************************************)
(* run_command on its own                                                  *)
(***************************************************************************)
ExitCodes == {0, 1, 2}
Processes == [found : BOOLEAN, exits : BOOLEAN, duration : 0..MaxDuration,
              returncode : ExitCodes, stdout : {"", "out"}, stderr : {"", "err"}]
Limits == {NoTimeout} \cup {<<t>> : t \in 1..MaxLimit}
RunCalls == [proc : Processes, ignore_errors : BOOLEAN, limit : Limits]

InitRun ==
    /\ pc = "run_command"
    /\ args \in {a \in ArgsSet : ~a.preflight /\ ~a.skip_neo4j /\ ~a.start_nextjs}
    /\ exitCode = <<>>
    /\ issued = <<>>
    /\ cmdFailures = {}
    /\ raisedBy = None
    /\ output = {}
    /\ cwd = RepoDir
    /\ rootEnv = CompleteEnv
    /\ shadowEnv = CompleteEnv
    /\ NoWait
    /\ NoPorts
    /\ NoOverlay
    /\ runCall \in RunCalls
    /\ runReturn = <<>>
    /\ genCalls = 0
    /\ env_vals = <<>>
    /\ NoPatch
    /\ NoParse
    /\ NoAux

\* The call comes back to its caller, with a value or an exception.
RunCommand ==
    /\ pc = "run_command"
    /\ LET r == run_command(runCall.proc, runCall.ignore_errors, runCall.limit) IN
       /\ ~r.blocked
       /\ runReturn' = <<r>>
    /\ pc' = "run_command returned"
    /\ UNCHANGED <<args, exitCode, issued, cmdFailures, raisedBy, output, runCall,
                   genCalls, env_vals, composeVars, parseVars, auxVars>>
    /\ UNCHANGED <<envVars, waitVars, portVars, overlayVars>>

NextRun == RunCommand

SpecRun == InitRun /\ [][NextRun]_vars

(***************************************************************************)
(* prepare_supabase_env on its own, called twice                           *)
(***************************************************************************)
\* A second file with every required key set: a comment, blanks before the
\* keys and values that contain "=".
OtherCompleteEnv ==
    File(<< <<"#", " ", "local">>,
            <<" ", "POSTGRES_HOST", "=", "y", "=", "z">>,
            <<" ", "POSTGRES_DB", "=", "y", "=", "z">>,
            <<" ", "POSTGRES_PORT", "=", "y", "=", "z">>,
            <<" ", "NEO4J_AUTH", "=", "y", "=", "z">>,
            <<" ", "DOCKER_SOCKET_LOCATION", "=", "y", "=", "z">> >>)
\* POSTGRES_HOST is there, its value is a blank; the other keys are not there.
BlankValueEnv == File(<< <<"POSTGRES_HOST", "=", " ">> >>)
EmptyEnv == File(<<>>)

RootFiles == {NoFile, EmptyEnv, BlankValueEnv, IncompleteEnv, CompleteEnv,
              OtherCompleteEnv}
ShadowFiles == {NoFile, StaleEnv, CompleteEnv}

InitEnv ==
    /\ pc = "prepare_supabase_env"
    /\ args \in {a \in ArgsSet : ~a.preflight /\ ~a.skip_neo4j /\ ~a.start_nextjs}
    /\ exitCode = <<>>
    /\ issued = <<>>
    /\ cmdFailures = {}
    /\ raisedBy = None
    /\ output = {}
    /\ cwd = RepoDir
    /\ rootEnv \in RootFiles
    /\ shadowEnv \in ShadowFiles
    /\ NoWait
    /\ NoPorts
    /\ NoOverlay
    /\ NoUnit

NextEnv ==
    \/ PrepareSupabaseEnv("prepare_supabase_env", "prepare_supabase_env again",
                          GenEnvs)
    \/ PrepareSupabaseEnv("prepare_supabase_env again", "prepare_supabase_env twice",
                          GenEnvs)

SpecEnv == InitEnv /\ [][NextEnv]_vars

(***************************************************************************)
(* read_env on its own, on a file of one line                              *)
(***************************************************************************)
\* The pieces a line is made of: text without "=", "#" or blanks, and these.
Pieces == {"K", "=", "#", " "}
ReadFiles == {File(<<l>>) : l \in SeqsUpTo(Pieces, MaxLineLen)}

InitRead ==
    /\ pc = "read_env"
    /\ args \in {a \in ArgsSet : ~a.preflight /\ ~a.skip_neo4j /\ ~a.start_nextjs}
    /\ exitCode = <<>>
    /\ issued = <<>>
    /\ cmdFailures = {}
    /\ raisedBy = None
    /\ output = {}
    /\ cwd = RepoDir
    /\ rootEnv \in ReadFiles
    /\ shadowEnv = NoFile
    /\ NoWait
    /\ NoPorts
    /\ NoOverlay
    /\ NoUnit

\* env_vals = read_env(root_env)
ReadEnv ==
    /\ pc = "read_env"
    /\ env_vals' = <<read_env(rootEnv)>>
    /\ pc' = "read_env returned"
    /\ UNCHANGED <<args, exitCode, issued, cmdFailures, raisedBy, output>>
    /\ UNCHANGED <<envVars, waitVars, portVars, overlayVars>>
    /\ UNCHANGED <<runCall, runReturn, genCalls, composeVars, parseVars, auxVars>>

NextRead == ReadEnv

SpecRead == InitRead /\ [][NextRead]_vars

(***************************************************************************)
(* patch_supabase_compose on its own, called again and again on one file   *)
(***************************************************************************)
SupabaseComposeFiles ==
    {NoComposeFile, UnparsableCompose}
    \cup {ComposeFile(f, w) : f \in UNION {[S -> Bodies] : S \in SUBSET ServiceNames},
                              w \in BOOLEAN}

InitPatch ==
    /\ pc = "patch_supabase_compose"
    /\ args \in {a \in ArgsSet : ~a.preflight /\ ~a.skip_neo4j /\ ~a.start_nextjs}
    /\ exitCode = <<>>
    /\ issued = <<>>
    /\ cmdFailures = {}
    /\ raisedBy = None
    /\ output = {}
    /\ cwd = RepoDir
    /\ rootEnv = CompleteEnv
    /\ shadowEnv = CompleteEnv
    /\ NoWait
    /\ NoPorts
    /\ NoOverlay
    /\ NoCall
    /\ genCalls = 0
    /\ env_vals = <<>>
    /\ compose \in SupabaseComposeFiles
    /\ composeWrites = 0
    /\ patchCalls = 0
    /\ NoParse
    /\ NoAux

PatchSupabaseCompose ==
    /\ pc = "patch_supabase_compose"
    /\ patchCalls < MaxPatchCalls
    /\ \E p \in {patch_supabase_compose(compose)} :
          /\ compose' = p.file
          /\ composeWrites' = composeWrites + (IF p.wrote THEN 1 ELSE 0)
          /\ output' = IF p.warned THEN output \cup {"unable to patch"} ELSE output
    /\ patchCalls' = patchCalls + 1
    /\ UNCHANGED <<pc, args, exitCode, issued, cmdFailures, raisedBy>>
    /\ UNCHANGED <<envVars, waitVars, portVars, overlayVars>>
    /\ UNCHANGED <<runCall, runReturn, genCalls, env_vals, parseVars, auxVars>>

NextPatch == PatchSupabaseCompose

SpecPatch == InitPatch /\ [][NextPatch]_vars

(***************************************************************************)
(* start_local_ai from the override file to the temporary override         *)
(***************************************************************************)
\* A port entry as the override file writes it: "- ", an address or none,
\* host port and container port; with no blank after the dash; in quotes.
Entry(addr, host, cont) ==
    <<" ", " ", "-", " ">> \o (IF addr # None THEN <<addr, ":">> ELSE <<>>)
    \o <<host, ":", cont>>
TightEntry(addr, host, cont) == <<"-", addr, ":", host, ":", cont>>
QuotedEntry(addr, host, cont) ==
    <<" ", "-", " ", "\"", addr, ":", host, ":", cont, "\"">>

Addresses == {Loopback, "0.0.0.0", "192.168.1.5", None}
HostPieces == {"8080", "8081"}
LoopbackLines ==
    {Entry(Loopback, h, "80") : h \in HostPieces}
    \cup {TightEntry(Loopback, h, "80") : h \in HostPieces}
    \cup {QuotedEntry(Loopback, h, "80") : h \in HostPieces}
OtherLines ==
    {Entry(a, h, "80") : a \in Addresses \ {Loopback}, h \in HostPieces}
    \cup {TightEntry("0.0.0.0", h, "80") : h \in HostPieces}
    \cup {<<" ", "ports", ":">>}
OverrideLines == LoopbackLines \cup OtherLines

InitParse ==
    /\ pc = "parse_private_override_ports"
    /\ args \in {a \in ArgsSet : ~a.preflight /\ ~a.skip_neo4j /\ ~a.start_nextjs}
    /\ exitCode = <<>>
    /\ issued = <<>>
    /\ cmdFailures = {}
    /\ raisedBy = None
    /\ output = {}
    /\ cwd = RepoDir
    /\ rootEnv = CompleteEnv
    /\ shadowEnv = CompleteEnv
    /\ NoWait
    /\ declared = <<>>
    /\ listening0 \in SUBSET LaunchHostPorts
    /\ listening = listening0
    /\ remap = <<>>
    /\ portTools = <<>>
    /\ NoOverlay
    /\ NoCall
    /\ genCalls = 0
    /\ env_vals = <<>>
    /\ NoPatch
    /\ overrideFile \in SeqsUpTo(OverrideLines, MaxOverrideLines)
    /\ overlayPorts = <<>>
    /\ NoAux

\* parsed = parse_private_override_ports(private_override), the remap loop
\* and "if remap:" with the write of the temporary override
ResolveFromFile ==
    /\ pc = "parse_private_override_ports"
    /\ \E decl \in {parse_private_override_ports(overrideFile)} :
       \E r \in {RemapLoop(decl, 1, listening, <<>>)} :
          /\ declared' = decl
          /\ remap' = r.remap
          /\ listening' = r.listening
          /\ temp_override_path' = IF WritesOverlay(r.remap) THEN TempPath ELSE None
          /\ overlayExists' = WritesOverlay(r.remap)
          /\ overlayPorts' = IF WritesOverlay(r.remap) THEN overlay_ports(r.remap)
                             ELSE <<>>
    /\ pc' = "overlay written"
    /\ UNCHANGED <<args, exitCode, issued, cmdFailures, raisedBy, output,
                   listening0, portTools, cmd, overrideFile>>
    /\ UNCHANGED <<envVars, waitVars>>
    /\ UNCHANGED <<runCall, runReturn, genCalls, env_vals, composeVars, auxVars>>

NextParse == ResolveFromFile

SpecParse == InitParse /\ [][NextParse]_vars

(***************************************************************************)
(* check_and_fix_docker_compose_for_searxng on its own, called again and   *)
(* again on one docker-compose.yml                                         *)
(***************************************************************************)
TextPieces == {"services:", Directive, Hash, Marker}

InitFix ==
    /\ pc = "check_and_fix_docker_compose_for_searxng"
    /\ args \in {a \in ArgsSet : ~a.preflight /\ ~a.skip_neo4j /\ ~a.start_nextjs}
    /\ exitCode = <<>>
    /\ issued = <<>>
    /\ cmdFailures = {}
    /\ raisedBy = None
    /\ output = {}
    /\ cwd = RepoDir
    /\ rootEnv = CompleteEnv
    /\ shadowEnv = CompleteEnv
    /\ NoWait
    /\ NoPorts
    /\ NoOverlay
    /\ NoCall
    /\ genCalls = 0
    /\ env_vals = <<>>
    /\ NoPatch
    /\ NoParse
    /\ composeText \in SeqsUpTo(TextPieces, MaxTextLen)
    /\ composeText0 = composeText
    /\ fixRuns = <<>>
    /\ overlayDoc = <<>>
    /\ NoProbes
    /\ NoRace

CheckAndFixAgain ==
    /\ pc = "check_and_fix_docker_compose_for_searxng"
    /\ Len(fixRuns) < MaxFixCalls
    /\ \E is_first_run \in BOOLEAN :
          /\ composeText' =
                check_and_fix_docker_compose_for_searxng(composeText, is_first_run)
          /\ fixRuns' = Append(fixRuns, is_first_run)
    /\ UNCHANGED <<pc, args, exitCode, issued, cmdFailures, raisedBy, output>>
    /\ UNCHANGED <<envVars, waitVars, portVars, overlayVars>>
    /\ UNCHANGED <<runCall, runReturn, genCalls, env_vals, composeVars, parseVars>>
    /\ UNCHANGED <<composeText0, overlayDoc, probeVars, localai>>

NextFix == CheckAndFixAgain

SpecFix == InitFix /\ [][NextFix]_vars

(***************************************************************************)
(* start_local_ai from the remap loop to the temporary override, with the  *)
(* docker-compose.yml it scans for the services                            *)
(***************************************************************************)
\* A service of docker-compose.yml with one container port in a list:
\*   <name>:
\*     expose:
\*       - <port>
\* and the same with a comment behind the key of the list.
ServiceBlock(name, port) ==
    <<"  ", name, ":", "\n",
      "  ", "  ", "expose", ":", "\n",
      "  ", "  ", "  ", "-", " ", port, "\n">>
CommentedKeyBlock(name, port) ==
    <<"  ", name, ":", "\n",
      "  ", "  ", "expose", ":", " ", "# internal", "\n",
      "  ", "  ", "  ", "-", " ", port, "/tcp", "\n">>
\* a service that publishes its port as host:container
PublishingBlock(name, host, port) ==
    <<"  ", name, ":", "\n",
      "  ", "  ", "ports", ":", "\n",
      "  ", "  ", "  ", "-", " ", host, ":", port, "\n">>

ServicesHead == <<"services", ":", "\n">>
ComposeTexts ==
    {ServicesHead \o ServiceBlock("n8n", "80"),
     ServicesHead \o ServiceBlock("n8n", "80") \o ServiceBlock("flowise", "3001"),
     ServicesHead \o CommentedKeyBlock("n8n", "80") \o CommentedKeyBlock("flowise", "3001"),
     ServicesHead \o PublishingBlock("n8n", "8080", "80"),
     ServicesHead \o CommentedKeyBlock("n8n", "80") \o CommentedKeyBlock("flowise", "80"),
     PlainComposeText}

OverlayPairs == {<<8080, 80>>, <<8081, 3001>>, <<8081, 80>>}

InitOverlay ==
    /\ pc = "remap loop"
    /\ args \in {a \in ArgsSet : ~a.preflight /\ ~a.skip_neo4j /\ ~a.start_nextjs}
    /\ exitCode = <<>>
    /\ issued = <<>>
    /\ cmdFailures = {}
    /\ raisedBy = None
    /\ output = {}
    /\ cwd = RepoDir
    /\ rootEnv = CompleteEnv
    /\ shadowEnv = CompleteEnv
    /\ NoWait
    /\ declared \in SeqsUpTo(OverlayPairs, MaxDeclared)
    /\ listening0 \in SUBSET LaunchHostPorts
    /\ listening = listening0
    /\ remap = <<>>
    /\ portTools = <<>>
    /\ NoOverlay
    /\ NoCall
    /\ genCalls = 0
    /\ env_vals = <<>>
    /\ NoPatch
    /\ NoParse
    /\ composeText \in ComposeTexts
    /\ composeText0 = composeText
    /\ fixRuns = <<>>
    /\ overlayDoc = <<>>
    /\ NoProbes
    /\ NoRace

\* "if remap:" with the scan of docker-compose.yml and the write of the
\* temporary override
WriteOverlay ==
    /\ pc = "remap done"
    /\ \E map \in {scan_compose(SplitLines(composeText, <<>>), <<>>, <<>>)} :
          overlayDoc' = IF WritesOverlay(remap)
                           THEN overlay_document(remap, map, <<>>) ELSE <<>>
    /\ overlayPorts' = IF WritesOverlay(remap) THEN overlay_ports(remap) ELSE <<>>
    /\ temp_override_path' = IF WritesOverlay(remap) THEN TempPath ELSE None
    /\ overlayExists' = WritesOverlay(remap)
    /\ pc' = "overlay written"
    /\ UNCHANGED <<args, exitCode, issued, cmdFailures, raisedBy, output, cmd,
                   overrideFile>>
    /\ UNCHANGED <<envVars, waitVars, portVars>>
    /\ UNCHANGED <<runCall, runReturn, genCalls, env_vals, composeVars>>
    /\ UNCHANGED <<composeText, composeText0, fixRuns, probeVars, localai>>

NextOverlay == ResolvePorts \/ WriteOverlay

SpecOverlay == InitOverlay /\ [][NextOverlay]_vars

(***************************************************************************)
(* Properties                                                              *)
(***************************************************************************)
IsPrefix(a, b) == Len(a) <= Len(b) /\ \A i \in 1..Len(a) : a[i] = b[i]

\* The phases of a launch, in the order main() is to go through them.
PhaseOrder(a) ==
    <<"down">>
    \o (IF a.skip_neo4j THEN <<>> ELSE <<"up neo4j", "wait_for_neo4j">>)
    \o <<"up supabase", "wait_for_supabase", "up main">>

MandatoryCommands == {"down", "up neo4j", "up supabase", "up main"}

\* C1: in a run without --preflight the phase commands and the returns of the
\* waits occur in the fixed order stop, (Neo4j start, Neo4j wait,) Supabase
\* start, Supabase wait, main start, each at most once; a run that reaches
\* Done has gone through all of them.
C1_FixedOrder ==
    ~args.preflight =>
        /\ IsPrefix(issued, PhaseOrder(args))
        /\ pc \in {"Done", "start_nextjs_dev"} => issued = PhaseOrder(args)
        /\ pc = "main up running" => issued = PhaseOrder(args)

C1_Witness ==
    /\ pc = "Done"
    /\ ~args.skip_neo4j
    /\ issued = <<"down", "up neo4j", "wait_for_neo4j", "up supabase",
                  "wait_for_supabase", "up main">>

\* C2: when the command of a mandatory phase has failed, the launch is over:
\* that command is the last one issued, main() has been left by an exception
\* and the exit status is 1.
C2_MandatoryFailureAborts ==
    \A c \in MandatoryCommands :
        c \in cmdFailures =>
            /\ pc = "Failed"
            /\ exitCode = <<1>>
            /\ raisedBy = c
            /\ issued # <<>> /\ issued[Len(issued)] = c

C2_Witness ==
    /\ pc = "Failed"
    /\ "up supabase" \in cmdFailures
    /\ issued = <<"down", "up neo4j", "wait_for_neo4j", "up supabase">>

C4_NonFatalConditions ==
    pc = "Failed" =>
        raisedBy \notin {"gen_all_in_one_env.py", "generate_env.py",
                         "wait_for_neo4j", "wait_for_supabase", "ss", "lsof"}

\* C5: while the main compose command runs, the overlay file named in it
\* exists (and one is named exactly when there are remaps); once
\* start_local_ai has returned or raised, no overlay file is left.
C5_OverlayEphemeral ==
    /\ pc = "main up running" =>
          /\ temp_override_path # None <=> remap # <<>>
          /\ temp_override_path # None => overlayExists
    /\ pc \in {"start_nextjs_dev", "Done", "Failed", "Preflight"} => ~overlayExists

C5_Witness ==
    /\ pc = "Failed"
    /\ raisedBy = "up main"
    /\ "Wrote temporary compose override" \in output
    /\ ~overlayExists

\* Largest port the remap loop can reach from the inputs tried.
PortTop == FirstUnprivileged + PortSpan + MaxDeclared + 1

\* The smallest port from `from` on that is not in taken.
SmallestFree(from, taken) ==
    CHOOSE p \in from..PortTop :
        /\ p \notin taken
        /\ \A q \in from..(p - 1) : q \in taken

\* New host ports of the remaps made before the k-th one.
Allocated(k) == {remap[j][3] : j \in 1..(k - 1)}

\* Every declared pair whose host port the host listens on has its own remap.
OneRemapPerConflict ==
    \A q \in PortPairs :
        q[1] \in listening0 =>
            Cardinality({k \in 1..Len(remap) : <<remap[k][1], remap[k][2]>> = q})
                = Cardinality({i \in 1..Len(declared) : declared[i] = q})

\* C6 as stated: each pair whose host port is in the listening set gets one
\* remap, to the smallest port >= host_port + 1 that is neither listened on
\* nor allocated earlier in the pass.
C6_SmallestAboveHost ==
    pc = "remap done" =>
        /\ OneRemapPerConflict
        /\ \A k \in 1..Len(remap) :
              remap[k][1] \in listening0 =>
                  remap[k][3] = SmallestFree(remap[k][1] + 1,
                                             listening0 \cup Allocated(k))

Max(a, b) == IF a >= b THEN a ELSE b

\* C6 amended: ... to the smallest port >= max(host_port + 1, 1024) that is
\* neither listened on nor allocated earlier in the pass; 8080:80 with
\* {8080, 8081} listening gives 8082.
C6_SmallestUnprivilegedAboveHost ==
    /\ pc = "remap done" =>
          /\ OneRemapPerConflict
          /\ \A k \in 1..Len(remap) :
                remap[k][1] \in listening0 =>
                    remap[k][3] = SmallestFree(Max(remap[k][1] + 1, FirstUnprivileged),
                                               listening0 \cup Allocated(k))
    /\ RemapLoop(<< <<8080, 80>> >>, 1, {8080, 8081}, <<>>).remap
           = << <<8080, 80, 8082>> >>

C6_Witness ==
    /\ pc = "remap done"
    /\ Len(remap) = 2
    /\ remap[1][1] \in listening0 /\ remap[2][1] \in listening0
    /\ remap[1][1] + 1 < FirstUnprivileged
    /\ remap[1][3] = FirstUnprivileged + 1
    /\ remap[2][3] = FirstUnprivileged + 2

\* C7: a pair is remapped only when its host port is in the listening set the
\* host reported before the pass.
C7_OnlyBoundPortsRemapped ==
    pc = "remap done" => \A k \in 1..Len(remap) : remap[k][1] \in listening0

\* Files given to the compose command with "-f", and how many there are.
ComposeFiles(c) == {c[i + 1] : i \in {j \in 1..(Len(c) - 1) : c[j] = "-f"}}
ComposeFileCount(c) == Cardinality({j \in 1..Len(c) : c[j] = "-f"})

\* C8: when no declared host port is in the listening set, there is no remap,
\* no overlay file is written and the compose command of the main stack names
\* only docker-compose.yml and the override file of the environment.
C8_NoConflictNoOverlay ==
    (/\ pc = "main up running"
     /\ \A i \in 1..Len(declared) : declared[i][1] \notin listening0)
    => /\ remap = <<>>
       /\ temp_override_path = None
       /\ ~overlayExists
       /\ "Wrote temporary compose override" \notin output
       /\ ComposeFileCount(cmd) = 2
       /\ ComposeFiles(cmd) =
             {"docker-compose.yml",
              IF args.environment = "private"
                 THEN "docker-compose.override.private.yml"
                 ELSE "docker-compose.override.public.yml"}

C8_Witness ==
    /\ pc = "main up running"
    /\ declared # <<>>
    /\ listening0 # {}
    /\ \A i \in 1..Len(declared) : declared[i][1] \notin listening0
    /\ remap = <<>>
    /\ ComposeFileCount(cmd) = 2

\* C9: a target whose probe the server answered with an HTTP status (200,
\* 401, 503, ...) is ready from then on.
C9_AnyStatusIsReady == answered \subseteq ready

MaxOf(S) == CHOOSE x \in S : \A y \in S : y <= x
Delays == {delay[t] : t \in TargetNames}

TimedOut(c) ==
    /\ c.proc.found
    /\ c.limit # NoTimeout
    /\ ~c.proc.exits \/ c.proc.duration > c.limit[1]

\* C11: a command that exceeds its timeout gives a failure result with exit
\* code -1 and stderr "Timeout": raised inside CommandExecutionError when
\* ignore_errors is false, returned to the caller as the result object when
\* ignore_errors is true.
C11_TimeoutResult ==
    (pc = "run_command returned" /\ TimedOut(runCall)) =>
        LET r == runReturn[1] IN
        IF runCall.ignore_errors
           THEN /\ r.raised = None
                /\ r.result # <<>>
                /\ r.result[1].returncode = -1
                /\ r.result[1].stderr = "Timeout"
           ELSE /\ r.raised = "CommandExecutionError"
                /\ r.error[1].exit_code = -1
                /\ r.error[1].stderr = "Timeout"

\* C12: with ignore_errors=False, a found executable that exits with a
\* non-zero status c makes run_command raise CommandExecutionError with
\* exit_code c and the stdout and stderr captured from the process.
C12_ErrorCarriesExitCode ==
    (/\ pc = "run_command returned"
     /\ ~runCall.ignore_errors
     /\ runCall.proc.found
     /\ ~TimedOut(runCall)
     /\ runCall.proc.returncode # 0)
    => LET r == runReturn[1] IN
       /\ r.raised = "CommandExecutionError"
       /\ r.error[1].exit_code = runCall.proc.returncode
       /\ r.error[1].stdout = runCall.proc.stdout
       /\ r.error[1].stderr = runCall.proc.stderr

\* prepare_supabase_env is being called
PreparingEnv == pc \in {"prepare_supabase_env", "prepare_supabase_env again"}

\* C13: a call of prepare_supabase_env that finds the root .env with every
\* required key set runs no generator, leaves the root file as it is and
\* leaves supabase/docker/.env equal to it; a second call changes nothing.
C13_CompleteEnvOnlyCopied ==
    [][(PreparingEnv /\ Exists(rootEnv) /\ missing(rootEnv) = {}) =>
          /\ genCalls' = 0
          /\ rootEnv' = rootEnv
          /\ shadowEnv' = rootEnv
          /\ pc' # "Failed"
          /\ pc = "prepare_supabase_env again" /\ shadowEnv = rootEnv =>
                UNCHANGED <<rootEnv, shadowEnv, output>>]_vars

C13_Witness ==
    /\ pc = "prepare_supabase_env twice"
    /\ rootEnv = OtherCompleteEnv
    /\ shadowEnv = OtherCompleteEnv
    /\ genCalls = 0
    /\ output = {}

\* C14: one call of prepare_supabase_env runs at most two generator
\* processes, whatever the root file and the generators do, and then returns,
\* with a warning when required keys are still missing.
C14_AtMostTwoGenerations ==
    /\ genCalls <= 2
    /\ pc # "Failed"
    /\ (~PreparingEnv /\ missing(rootEnv) # {}) => "env keys still missing" \in output

\* The text of a line before and after its first "=", as written.
RawKey(l) == SubSeq(l, 1, FirstEq(l) - 1)
RawValue(l) == SubSeq(l, FirstEq(l) + 1, Len(l))
Blank(l) == \A i \in 1..Len(l) : l[i] \in Whitespace
\* the first piece that is not a blank is "#"
Comment(l) == \E i \in 1..Len(l) : l[i] = "#" /\ \A j \in 1..(i - 1) : l[j] \in Whitespace
OnlyLine == rootEnv[1][1]

\* C15 as stated: a line that is not blank, is no comment and has an "="
\* gives the key before the first "=" and, as value, the text after the
\* first "=" as it is written.
C15_ValueVerbatim ==
    pc = "read_env returned" =>
        LET l == OnlyLine IN
        (~Blank(l) /\ ~Comment(l) /\ HasEq(l)) =>
            env_vals[1] = [k \in {lstrip(RawKey(l))} |-> RawValue(l)]

\* C15 amended: such a line gives the text before the first "=" without the
\* blanks in front of it as key and the text after the first "=" without the
\* blanks at its end as value: "=" inside the value and blanks next to the
\* first "=" are kept; any other line gives nothing.  A line written as
\* key, "=", value is read back as that pair when the key does not start with
\* a blank or "#" and the value does not end with a blank.
C15_ValueStripped ==
    pc = "read_env returned" =>
        LET l == OnlyLine IN
        /\ (~Blank(l) /\ ~Comment(l) /\ HasEq(l)) =>
              env_vals[1] = [k \in {lstrip(RawKey(l))} |-> rstrip(RawValue(l))]
        /\ (Blank(l) \/ Comment(l) \/ ~HasEq(l)) => env_vals[1] = <<>>
        /\ (/\ HasEq(l)
            /\ RawKey(l) = <<>> \/ RawKey(l)[1] \notin Whitespace \cup {"#"}
            /\ RawValue(l) = <<>> \/ RawValue(l)[Len(RawValue(l))] \notin Whitespace)
           => env_vals[1] = [k \in {RawKey(l)} |-> RawValue(l)]

C15_Witness ==
    /\ pc = "read_env returned"
    /\ OnlyLine = <<"K", "=", "=", " ">>
    /\ env_vals = <<[k \in {<<"K">>} |-> <<"=">>]>>

\* C16: in a run with --preflight no compose command is issued and no
\* readiness wait is made; the run never gets past the set-up checks, and
\* when the checks complete it exits with status 0 whatever they found.
C16_PreflightStartsNothing ==
    args.preflight =>
        /\ issued = <<>>
        /\ NoWait
        /\ pc \in {"clone_supabase_repo", "prepare_supabase_env",
                   "generate_searxng_secret_key",
                   "check_and_fix_docker_compose_for_searxng",
                   "Preflight", "Failed"}
        /\ pc = "Preflight" => exitCode = <<0>>
        /\ exitCode = <<0>> => pc = "Preflight"

C16_Witness ==
    /\ args.preflight
    /\ pc = "Preflight"
    /\ "env keys still missing" \in output
    /\ missing(rootEnv) # {}
    /\ exitCode = <<0>>
    /\ issued = <<>>

\* C17: once patch_supabase_compose has been called on a parsable compose
\* file, whatever the number of calls, the services hold neither
\* "supabase-pooler" nor "supavisor" (the file being one that can be written).
C17_PoolerServicesGone ==
    (patchCalls > 0 /\ compose.exists /\ compose.parsable /\ compose.writable) =>
        PoolerNames \cap DOMAIN compose.services = {}

\* The host and container port a port entry of the override file names.
PairOf(l) == <<int(l[Len(l) - 2]), int(l[Len(l)])>>
UnquotedLoopback(l) ==
    \E h \in HostPieces : l \in {Entry(Loopback, h, "80"), TightEntry(Loopback, h, "80")}
\* rm[k] stems from line idx[k] of the file, each remap from a line of its own
StemsFrom(rm, idx) ==
    /\ \A k \in 1..Len(rm) :
          /\ UnquotedLoopback(overrideFile[idx[k]])
          /\ PairOf(overrideFile[idx[k]]) = <<rm[k][1], rm[k][2]>>
    /\ \A j, k \in 1..Len(rm) : j < k => idx[j] < idx[k]

\* C18: every remap stems from an entry of the override file published on
\* 127.0.0.1, each from an entry of its own in the order of the file, so an
\* entry on the wildcard or another address is never remapped, listening or
\* not; the overlay republishes the remaps, on 127.0.0.1, and nothing else.
C18_OnlyLoopbackRemapped ==
    pc = "overlay written" =>
        /\ \E idx \in [1..Len(remap) -> 1..Len(overrideFile)] : StemsFrom(remap, idx)
        /\ Len(overlayPorts) = Len(remap)
        /\ \A k \in 1..Len(overlayPorts) :
              overlayPorts[k] = <<Loopback, remap[k][3], remap[k][2]>>
        /\ overlayExists <=> remap # <<>>

C18_Witness ==
    /\ pc = "overlay written"
    /\ overrideFile = <<Entry("0.0.0.0", "8080", "80"), Entry(Loopback, "8081", "80")>>
    /\ listening0 = {8080, 8081}
    /\ remap = <<<<8081, 80, 8082>>>>
    /\ overlayPorts = <<<<Loopback, 8082, 80>>>>

ToolsRun == {portTools[i][1] : i \in 1..Len(portTools)}
BothToolsFailed ==
    /\ ToolsRun = {"ss", "lsof"}
    /\ portTools[1][2] # "ok"
    /\ portTools[2][2] # "ok"
FailsOpen ==
    BothToolsFailed =>
        /\ listening0 = {}
        /\ remap = <<>>
        /\ temp_override_path = None
        /\ ~overlayExists
        /\ issued # <<>>
        /\ issued[Len(issued)] = "up main"

C20_AlwaysTerminates == <>(pc \in {"Done", "Failed", "Preflight"})

\* C25: when the dedicated "up -d neo4j" fails, the full "up -d" is issued
\* next, and whatever that one does the launch goes on to wait_for_neo4j: it
\* never ends because of either command.
C25_Neo4jFallback ==
    "up neo4j" \in cmdFailures =>
        /\ \E i \in 1..(Len(issued) - 1) :
              issued[i] = "up neo4j" /\ issued[i + 1] = "up (fallback)"
        /\ raisedBy \notin {"up neo4j", "up (fallback)"}

\* C26: a primary generator that exits with a non-zero status does not end
\* prepare_supabase_env: the call returns and the launch is not failed by it.
C26_PrimaryFailureFallsBack ==
    "gen_all_in_one_env.py" \in cmdFailures =>
        /\ pc # "Failed"
        /\ raisedBy # "gen_all_in_one_env.py"

\* C30: clone_supabase_repo leaves the working directory as it found it,
\* whether it returns or raises; no later phase changes it either.
C30_WorkingDirectoryKept == [][cwd' = cwd]_vars

C30_Witness ==
    /\ pc = "Failed"
    /\ raisedBy = "git sparse-checkout init"
    /\ cwd = RepoDir

\* C27: every new host port of a remap is a port number, from 1 to 65535,
\* whatever is declared and listening within that range.
C27_NewPortsValid ==
    \A k \in 1..Len(remap) : remap[k][3] \in 1..MaxPort

\* Host ports of declared pairs that no remap moves away.
UnremappedHosts ==
    {declared[i][1] : i \in 1..Len(declared)} \ {remap[k][1] : k \in 1..Len(remap)}

\* C29: after the pass no new host port is the host port of a declared pair
\* left as it is, and no two remaps have the same new host port.
C29_PublishedPortsDistinct ==
    pc = "remap done" =>
        /\ \A k \in 1..Len(remap) : remap[k][3] \notin UnremappedHosts
        /\ \A j, k \in 1..Len(remap) : j # k => remap[j][3] # remap[k][3]

\* n >= 1 first-run calls and then one call that is not a first run
FirstRunsThenOne(runs) ==
    /\ Len(runs) >= 2
    /\ \A i \in 1..(Len(runs) - 1) : runs[i]
    /\ ~runs[Len(runs)]

\* C28: on a file with the active directive and nothing commented out, any
\* number of first-run calls followed by one call that is not a first run
\* gives back the content the file had.
C28_CapDropRoundTrip ==
    (/\ Contains(composeText0, Active)
     /\ \A i \in 1..Len(composeText0) : composeText0[i] \notin {Hash, Marker}
     /\ FirstRunsThenOne(fixRuns))
    => composeText = composeText0

\* A line that names a service: a key one step below "services:".
NamesService(l) == IsServiceLine(l) /\ l[2] \notin Blanks

\* Container port -> the service in whose block the port is listed.
RECURSIVE owners(_, _, _)
owners(lines, cur, map) ==
    IF lines = <<>> THEN map
    ELSE LET l == Head(lines)
             cur1 == IF NamesService(l) THEN <<l[2]>> ELSE cur
             pm == PortOfLine(l)
             map1 == IF pm # <<>> /\ cur1 # <<>>
                        THEN [cp \in DOMAIN map \cup {pm[1]} |->
                                IF cp = pm[1] THEN cur1[1] ELSE map[cp]]
                        ELSE map
         IN  owners(Tail(lines), cur1, map1)

OwnerOf(cont_p) ==
    LET own == owners(SplitLines(composeText, <<>>), <<>>, <<>>) IN
    IF cont_p \in DOMAIN own THEN own[cont_p] ELSE UnknownService(cont_p)

\* where in the overlay the port line of a remap stands
PlacesOf(rm) ==
    {p \in UNION {{<<d, j>> : j \in 1..Len(overlayDoc[d].ports)} :
                    d \in 1..Len(overlayDoc)} :
        overlayDoc[p[1]].ports[p[2]] = <<Loopback, rm[3], rm[2]>>}

RECURSIVE PortLines(_)
PortLines(doc) ==
    IF doc = <<>> THEN 0 ELSE Len(Head(doc).ports) + PortLines(Tail(doc))

\* C24: the overlay names each service once; every remap has one port line,
\* "127.0.0.1:new:container", under the service that owns the container port
\* (or under unknown_<container port>), and there are no other port lines.
C24_OverlayByOwningService ==
    pc = "overlay written" =>
        /\ \A d, e \in 1..Len(overlayDoc) :
              d # e => overlayDoc[d].service # overlayDoc[e].service
        /\ \A k \in 1..Len(remap) :
              /\ Cardinality(PlacesOf(remap[k])) = 1
              /\ \A p \in PlacesOf(remap[k]) :
                    overlayDoc[p[1]].service = OwnerOf(remap[k][2])
        /\ PortLines(overlayDoc) = Len(remap)

StrategyOrder == <<"check_host", "find_neo4j_container", "check_inside_with_curl",
                   "check_inside_with_python", "logs_indicate_ready">>

\* C22: the calls of a pass of wait_for_neo4j are an initial part of: host
\* probe, container lookup, curl inside, python inside, log scan; every call
\* before the last one failed, but for the lookup, which found a container;
\* the wait returns ready on a strategy that succeeded, and a pass that goes
\* on to sleep has ended on a failed lookup or on a failed log scan.
C22_StrategiesInOrder ==
    /\ Len(tried) <= Len(StrategyOrder)
    /\ \A i \in 1..Len(tried) : tried[i][1] = StrategyOrder[i]
    /\ \A i \in 1..(Len(tried) - 1) : tried[i][2] = (i = 2)
    /\ waitResult = <<TRUE>> =>
          /\ tried # <<>>
          /\ tried[Len(tried)][2]
          /\ Len(tried) # 2
    /\ (pc = "wait_for_neo4j" /\ tried # <<>>) =>
          /\ ~tried[Len(tried)][2]
          /\ Len(tried) \in {2, Len(StrategyOrder)}

C22_Witness ==
    /\ waitResult = <<TRUE>>
    /\ tried = <<<<"check_host", FALSE>>, <<"find_neo4j_container", TRUE>>,
                 <<"check_inside_with_curl", FALSE>>,
                 <<"check_inside_with_python", TRUE>>>>

PolledNames == {polled[i] : i \in 1..Len(polled)}

\* The probes of a pass: the targets that were not ready when it began, each
\* once, in the order of the targets; the ready set grows, by probed targets
\* only; the wait returns True exactly from a pass that began before the
\* timeout and ended with every target ready.
PassProbesUnready ==
    pc = "wait_for_supabase" =>
        /\ elapsed < timeout =>
              /\ PolledNames' = TargetNames \ ready
              /\ Len(polled') = Cardinality(PolledNames')
              /\ \A i, j \in 1..Len(polled') :
                    i < j => IndexOf(polled'[i]) < IndexOf(polled'[j])
        /\ ready \subseteq ready'
        /\ ready' \ ready \subseteq PolledNames'
        /\ waitResult' = <<TRUE>> <=> (elapsed < timeout /\ ready' = TargetNames)

\* C23: every pass of wait_for_supabase probes exactly the targets not yet
\* ready, one after another; the ready set only grows; a target that has
\* answered is not probed again; the wait returns True exactly when every
\* target is ready at the end of a pass that began before the timeout.
C23_AnsweredNeverProbedAgain ==
    [][/\ PassProbesUnready
       /\ (pc = "wait_for_supabase" /\ elapsed < timeout) =>
              answered \cap PolledNames' = {}]_vars

\* what a command of the launcher brings up
ServicesOf(command) ==
    CASE command = "up neo4j" -> {"neo4j"}
      [] command = "up supabase" -> SupabaseServices
      [] command \in {"up", "up (fallback)"} -> RootServices
      [] OTHER -> {}

\* attempt a brought container c up and another attempt's 'down' ran later
RemovedByOther(a, c) ==
    \E i, j \in 1..Len(localai.ran) :
        /\ i < j
        /\ localai.ran[i][1] = a
        /\ c \in ServicesOf(localai.ran[i][2])
        /\ localai.ran[j][1] # a
        /\ localai.ran[j][2] = "down"

\* C21: nothing keeps the launches against project 'localai' apart: a launch
\* that has come to its 'down' can always run it, whatever the other launch
\* is doing; and a container that a launch brought up and that is gone was
\* removed by the other launch's 'down', run after it was brought up.
C21_StopNeverExcluded ==
    \A a \in Attempts :
        /\ localai.at[a] = "stop_existing_containers" => ENABLED ConcurrentStop(a)
        /\ \A c \in localai.started[a] \ localai.containers : RemovedByOther(a, c)

\* One launch is Done although the other launch's 'down' has removed
\* containers it had brought up.
C21_Witness ==
    \E a \in Attempts :
        /\ localai.at[a] = "Done"
        /\ \E c \in localai.started[a] \ localai.containers : RemovedByOther(a, c)

====
